---- MODULE Spec2Model ----
(***************************************************************************)
(* Video sonification pipeline of hackgt12: the pitch/name codec, the      *)
(* event normalizer and the shaping passes of requestMusicalPlan           *)
(* (lib/gemini.ts) and the scale detector, gap filler and time scaler of   *)
(* the /api/sonify route (app/api/sonify/route.ts).                        *)
(*                                                                         *)
(* Conventions.  A JavaScript string that the code inspects character by   *)
(* character (a note name, a mood label) is a sequence of one-character    *)
(* strings; the two non-ASCII accidental glyphs are the tokens "sharp_sign"*)
(* and "flat_sign".  A value that may be null is a sequence of length 0    *)
(* (null) or 1.  Numbers are exact rationals: Math.round(a/b) is           *)
(* RoundDiv(a, b), i.e. floor(a/b + 1/2).                                  *)
(***************************************************************************)
EXTENDS Integers, Sequences, FiniteSets, TLC

VARIABLES
    cpc,        \* codec check: "pitch" | "named" | "decoded"
    cp,         \* codec check: the pitch index that is encoded
    ccodec,     \* codec check: which pair of helpers was used ("lib" | "route")
    cname,      \* codec check: the note name produced
    cback,      \* codec check: the result of parsing cname (null = <<>>)
    stage,               \* requestMusicalPlan / POST: the pass that runs next
    rawEvents,        \* parsed.events: the collaborator's raw candidate events
    targetDurationMs, \* requestMusicalPlan's targetDurationMs (0 = none)
    segments,         \* extraContext.videoAnalysis.segments
    events,           \* the working event list of requestMusicalPlan
    targetDuration,   \* POST: targetDuration (0 = undefined)
    detectedScale,    \* POST: detectedScale (null = <<>>)
    planEnd,          \* POST: planEnd
    attempt,          \* POST: 1 during the first attempt, 2 during the retry
    fallbackUsed,     \* POST: fallbackUsed
    tempVideo,        \* POST: the file at tempVideoPath: "none" | "written" |
                      \* "unlinking" (fs.unlink started) | "deleted" | "left"
    fn,               \* function check: the function applied ("none" = idle)
    arg,              \* function check: its argument
    result            \* function check: its result

codecVars == <<cpc, cp, ccodec, cname, cback>>
planVars == <<stage, rawEvents, targetDurationMs, segments, events>>
routeVars == <<targetDuration, detectedScale, planEnd, attempt, fallbackUsed, tempVideo>>
applyVars == <<fn, arg, result>>
vars == <<codecVars, planVars, routeVars, applyVars>>

----------------------------------------------------------------------------
(* Arithmetic helpers of JavaScript numbers                                 *)

Min(a, b) == IF a < b THEN a ELSE b
Max(a, b) == IF a > b THEN a ELSE b
Abs(a) == IF a < 0 THEN -a ELSE a

\* JavaScript's % truncates toward zero (the sign follows the dividend).
JsMod(a, b) == IF a >= 0 THEN a % b ELSE -((-a) % b)

\* Math.floor(a / b) for b > 0.
FloorDiv(a, b) == a \div b

\* Math.round(a / b) for b > 0: halves round toward +Infinity.
RoundDiv(a, b) == (2 * a + b) \div (2 * b)

\* Math.ceil(a / b) for b > 0.
CeilDiv(a, b) == -((-a) \div b)

\* F applied to the value of e
Then(e, F(_)) == CHOOSE r \in { F(v) : v \in {e} } : TRUE

\* A loop over i = lo..hi: the state after the iterations, Body(state, i)
\* being the state after iteration i.  The range is halved so that the
\* evaluation stays shallow.
RECURSIVE Loop(_, _, _, _)
Loop(Body(_, _), state, lo, hi) ==
    IF lo > hi THEN state
    ELSE IF lo = hi THEN Body(state, lo)
    ELSE LET mid == (lo + hi) \div 2
         IN  Then(Loop(Body, state, lo, mid), LAMBDA v : Loop(Body, v, mid + 1, hi))

\* s[lo] + ... + s[hi]
SumSeq(s) == Loop(LAMBDA acc, i : acc + s[i], 0, 1, Len(s))

----------------------------------------------------------------------------
(* Pitch / name codec                                                        *)

DigitChars == <<"0", "1", "2", "3", "4", "5", "6", "7", "8", "9">>
IsDigit(c) == \E i \in 1..10 : DigitChars[i] = c
DigitValue(c) == (CHOOSE i \in 1..10 : DigitChars[i] = c) - 1

RECURSIVE NatToStr(_)
NatToStr(n) ==
    IF n < 10 THEN <<DigitChars[n + 1]>>
    ELSE NatToStr(n \div 10) \o <<DigitChars[(n % 10) + 1]>>

\* Template-literal formatting of an integer: `${octave}`.
IntToStr(i) == IF i < 0 THEN <<"-">> \o NatToStr(-i) ELSE NatToStr(i)

RECURSIVE StrToNat(_)
StrToNat(s) ==
    IF s = <<>> THEN 0
    ELSE 10 * StrToNat(SubSeq(s, 1, Len(s) - 1)) + DigitValue(s[Len(s)])

\* parseInt(octaveStr, 10) on a string matching -?\d+.
ParseInt(s) == IF s[1] = "-" THEN -StrToNat(Tail(s)) ELSE StrToNat(s)

AllDigits(s) == \A i \in 1..Len(s) : IsDigit(s[i])

RECURSIVE TrimLeft(_)
TrimLeft(s) == IF s # <<>> /\ s[1] = " " THEN TrimLeft(Tail(s)) ELSE s
RECURSIVE TrimRight(_)
TrimRight(s) ==
    IF s # <<>> /\ s[Len(s)] = " " THEN TrimRight(SubSeq(s, 1, Len(s) - 1)) ELSE s
Trim(s) == TrimRight(TrimLeft(s))

PITCH_CLASS ==
    << <<"C">>, <<"C", "#">>, <<"D">>, <<"D", "#">>, <<"E">>, <<"F">>,
       <<"F", "#">>, <<"G">>, <<"G", "#">>, <<"A">>, <<"A", "#">>, <<"B">> >>

UpperLetters == {"A", "B", "C", "D", "E", "F", "G"}
LowerLetters == {"a", "b", "c", "d", "e", "f", "g"}

ToUpperCase(c) ==
    CASE c = "a" -> "A" [] c = "b" -> "B" [] c = "c" -> "C" [] c = "d" -> "D"
      [] c = "e" -> "E" [] c = "f" -> "F" [] c = "g" -> "G" [] OTHER -> c

LETTER_TO_PC(l) ==
    CASE l = "C" -> 0 [] l = "D" -> 2 [] l = "E" -> 4 [] l = "F" -> 5
      [] l = "G" -> 7 [] l = "A" -> 9 [] l = "B" -> 11

\* The three groups of /^([A-Ga-g])(ACC?)(-?\d{lo,hi})$/ on s, or <<>> when s
\* does not match.  accs is the accidental character class, maxDigits the
\* upper repetition bound of the digits (0 = unbounded).
MatchNote(s, accs, maxDigits) ==
    IF Len(s) < 2 \/ s[1] \notin (UpperLetters \cup LowerLetters) THEN <<>>
    ELSE LET hasAcc == s[2] \in accs
             Groups(rest, digits) ==
                 IF /\ digits # <<>>
                    /\ AllDigits(digits)
                    /\ (maxDigits = 0 \/ Len(digits) <= maxDigits)
                 THEN << [letter |-> s[1],
                          accidental |-> IF hasAcc THEN s[2] ELSE "",
                          octaveStr |-> rest] >>
                 ELSE <<>>
             Sign(rest) ==
                 Groups(rest, IF rest # <<>> /\ rest[1] = "-" THEN Tail(rest) ELSE rest)
         IN  Sign(IF hasAcc THEN SubSeq(s, 3, Len(s)) ELSE Tail(s))

\* gemini.ts midiToNoteName with the octave taken without the -1 offset.
midiToNoteName_NoOffset(n) ==
    PITCH_CLASS[JsMod(JsMod(n, 12) + 12, 12) + 1] \o IntToStr(FloorDiv(n, 12))

\* gemini.ts: midiToNoteName
midiToNoteName(n) ==
    PITCH_CLASS[JsMod(JsMod(n, 12) + 12, 12) + 1] \o IntToStr(FloorDiv(n, 12) - 1)

\* gemini.ts: noteNameToMidi (null = <<>>)
noteNameToMidi(name) ==
    LET InRange(midi) == IF midi < 0 \/ midi > 127 THEN <<>> ELSE <<midi>>
        Pitch(base, acc, octave) ==
            LET pc1 == IF acc \in {"#", "sharp_sign"} THEN base + 1 ELSE base
                pc2 == IF acc \in {"b", "flat_sign"} THEN pc1 - 1 ELSE pc1
                pc == JsMod(pc2 + 12, 12)
            IN  InRange(12 * (octave + 1) + pc)
        Matched(m) ==
            IF m = <<>> THEN <<>>
            ELSE Pitch(LETTER_TO_PC(ToUpperCase(m[1].letter)), m[1].accidental,
                       ParseInt(m[1].octaveStr))
    IN  Matched(MatchNote(Trim(name), {"#", "b", "flat_sign", "sharp_sign"}, 2))

\* route.ts: midiToNoteName (the argument is an integer here, Math.round is
\* the identity on it)
midiToNoteNameRoute(m) ==
    LET n == Max(0, Min(127, m))
    IN  PITCH_CLASS[JsMod(n, 12) + 1] \o IntToStr(FloorDiv(n, 12) - 1)

\* route.ts: noteNameToMidiLoose (null = <<>>)
noteNameToMidiLoose(name) ==
    LET Pitch(base, acc, octave) ==
            LET pc1 == IF acc = "#" THEN base + 1
                       ELSE IF acc = "b" THEN base - 1 ELSE base
                pc == JsMod(pc1 + 12, 12)
            IN  <<12 * (octave + 1) + pc>>
        Matched(m) ==
            IF m = <<>> THEN <<>>
            ELSE Pitch(LETTER_TO_PC(ToUpperCase(m[1].letter)), m[1].accidental,
                       ParseInt(m[1].octaveStr))
    IN  Matched(MatchNote(name, {"#", "b"}, 0))

----------------------------------------------------------------------------
(* SpecCodec: every pitch index is encoded by one of the two helper pairs    *)
(* and the name is parsed back by the same pair.                             *)

MaxMidi == 127

\* The variables of requestMusicalPlan while only the codec is exercised.
PlanIdle ==
    /\ stage = "idle"
    /\ rawEvents = <<>>
    /\ targetDurationMs = 0
    /\ segments = <<>>
    /\ events = <<>>

\* The variables of the route while requestMusicalPlan alone is exercised.
RouteIdle ==
    /\ targetDuration = 0
    /\ detectedScale = <<>>
    /\ planEnd = 0
    /\ attempt = 1
    /\ fallbackUsed = FALSE
    /\ tempVideo = "none"

\* The variables of the function checks while something else is exercised.
ApplyIdle ==
    /\ fn = "none"
    /\ arg = <<>>
    /\ result = <<>>

\* The variables of the codec check while the plan pipeline runs.
CodecIdle ==
    /\ cpc = "idle"
    /\ cp = 0
    /\ ccodec = "none"
    /\ cname = <<>>
    /\ cback = <<>>

CodecInit ==
    /\ cpc = "pitch"
    /\ cp \in 0..MaxMidi
    /\ ccodec = "none"
    /\ cname = <<>>
    /\ cback = <<>>
    /\ PlanIdle
    /\ RouteIdle
    /\ ApplyIdle

CodecEncodeLib ==
    /\ cpc = "pitch"
    /\ cname' = midiToNoteName(cp)
    /\ ccodec' = "lib"
    /\ cpc' = "named"
    /\ UNCHANGED <<cp, cback, planVars, routeVars, applyVars>>

CodecEncodeRoute ==
    /\ cpc = "pitch"
    /\ cname' = midiToNoteNameRoute(cp)
    /\ ccodec' = "route"
    /\ cpc' = "named"
    /\ UNCHANGED <<cp, cback, planVars, routeVars, applyVars>>

CodecDecodeLib ==
    /\ cpc = "named"
    /\ ccodec = "lib"
    /\ cback' = noteNameToMidi(cname)
    /\ cpc' = "decoded"
    /\ UNCHANGED <<cp, ccodec, cname, planVars, routeVars, applyVars>>

CodecDecodeRoute ==
    /\ cpc = "named"
    /\ ccodec = "route"
    /\ cback' = noteNameToMidiLoose(cname)
    /\ cpc' = "decoded"
    /\ UNCHANGED <<cp, ccodec, cname, planVars, routeVars, applyVars>>

CodecNext ==
    \/ CodecEncodeLib
    \/ CodecEncodeRoute
    \/ CodecDecodeLib
    \/ CodecDecodeRoute

SpecCodec == CodecInit /\ [][CodecNext]_vars

\* C1: for every pitch index p in 0..127, parsing the name that either helper
\* pair produces for p gives p back (names with octave -1 and p = 127 included).
C1_RoundTrip == cpc = "decoded" => cback = <<cp>>

\* C1 witness: a pitch below 12, whose name carries the octave -1, and 127
\* are decoded to themselves.
C1_Witness ==
    /\ cpc = "decoded"
    /\ cp < 12
    /\ cname[Len(cname) - 1] = "-"
    /\ cback = <<cp>>

----------------------------------------------------------------------------
(* JavaScript values of the untrusted raw events.  A value is a record       *)
(* [k, v]: k is "undefined", "null", "str" (a non-numeric string), "num",    *)
(* "nan", "inf" or "ninf"; v is the integer of a "num".                      *)

Undefined == [k |-> "undefined", v |-> 0]
Null == [k |-> "null", v |-> 0]
Str == [k |-> "str", v |-> 0]
Num(n) == [k |-> "num", v |-> n]
NaN == [k |-> "nan", v |-> 0]
PosInf == [k |-> "inf", v |-> 0]
NegInf == [k |-> "ninf", v |-> 0]

\* typeof x === 'number'
IsNumberType(x) == x.k \in {"num", "nan", "inf", "ninf"}

\* Number(x)
ToNumber(x) ==
    CASE x.k = "undefined" -> NaN
      [] x.k = "str" -> NaN
      [] x.k = "null" -> Num(0)
      [] OTHER -> x

\* Number.isFinite(x)
IsFinite(x) == x.k = "num"

\* a < b on numbers (false whenever a NaN takes part)
JsLess(a, b) ==
    CASE a.k = "nan" \/ b.k = "nan" -> FALSE
      [] a.k = "ninf" -> b.k # "ninf"
      [] a.k = "inf" -> FALSE
      [] b.k = "inf" -> TRUE
      [] b.k = "ninf" -> FALSE
      [] OTHER -> a.v < b.v

\* Math.max(a, b) and Math.min(a, b): NaN if either argument is NaN
JsMax(a, b) ==
    IF a.k = "nan" \/ b.k = "nan" THEN NaN ELSE IF JsLess(a, b) THEN b ELSE a
JsMin(a, b) ==
    IF a.k = "nan" \/ b.k = "nan" THEN NaN ELSE IF JsLess(b, a) THEN b ELSE a

\* a + n for an integer n
JsPlus(a, n) == IF a.k = "num" THEN Num(a.v + n) ELSE a

\* x ?? d
Coalesce(x, d) == IF x.k \in {"undefined", "null"} THEN d ELSE x

----------------------------------------------------------------------------
(* Event Normalizer of requestMusicalPlan                                    *)

\* raw.noteType.toLowerCase() over the labels the model draws from
ToLowerCase(s) ==
    CASE s = "WHOLE" -> "whole" [] s = "Quarter" -> "quarter" [] OTHER -> s

\* duration from the categorical label
NoteTypeMs(nt) ==
    CASE nt = "sixteenth" -> 125 [] nt = "eighth" -> 250 [] nt = "quarter" -> 500
      [] nt = "half" -> 1000 [] nt = "whole" -> 2000 [] OTHER -> 500

\* duration from a raw numeric duration
BucketMs(d) ==
    IF JsLess(d, Num(190)) THEN 125
    ELSE IF JsLess(d, Num(375)) THEN 250
    ELSE IF JsLess(d, Num(750)) THEN 500
    ELSE IF JsLess(d, Num(1500)) THEN 1000 ELSE 2000

\* Math.min(110, Math.max(40, Math.round(Number(raw.velocity ?? 80))))
NormVelocity(raw) ==
    JsMin(Num(110), JsMax(Num(40), ToNumber(Coalesce(raw.velocity, Num(80)))))

\* The duration resolution with the numeric duration kept as it is.
NormDuration_Unsnapped(raw) ==
    IF raw.noteType # <<>> THEN NoteTypeMs(ToLowerCase(raw.noteType[1]))
    ELSE IF IsNumberType(raw.duration)
         THEN (IF IsFinite(raw.duration) THEN raw.duration.v ELSE 2000)
         ELSE 500

\* let ms = ... : label first, then the raw numeric duration, else a quarter
NormDuration(raw) ==
    IF raw.noteType # <<>> THEN NoteTypeMs(ToLowerCase(raw.noteType[1]))
    ELSE IF IsNumberType(raw.duration) THEN BucketMs(raw.duration)
    ELSE 500

\* The callback of events.map: the normalized event (<<ev>>) or null (<<>>).
\* raw.kind is "object" here; for a primitive every property is undefined.
MapRaw(raw) ==
    LET name0 == IF raw.kind = "object" THEN raw.noteName ELSE <<>>
        alt == IF raw.kind = "object" THEN raw.pitch ELSE <<>>
        name == IF (name0 = <<>> \/ name0[1] = <<>>) /\ alt # <<>> THEN alt ELSE name0
        Timed(midi, time) ==
            IF ~IsFinite(time) THEN <<>>
            ELSE << [noteName |-> midiToNoteName(Min(96, Max(36, midi[1]))),
                     time |-> time.v,
                     duration |-> NormDuration(raw),
                     velocity |-> NormVelocity(raw)] >>
        Pitched(midi) ==
            IF midi = <<>> THEN <<>>
            ELSE Timed(midi, JsMax(Num(0), ToNumber(raw.time)))
    IN  IF name = <<>> \/ name[1] = <<>> THEN <<>>
        ELSE Pitched(noteNameToMidi(name[1]))

\* events.map(...).filter(Boolean)
MapFilterRaw(raws) ==
    Loop(LAMBDA acc, i : acc \o MapRaw(raws[i]), <<>>, 1, Len(raws))

\* Reading raw.noteName of null throws a TypeError.
MapThrows(raws) == \E i \in 1..Len(raws) : raws[i].kind = "null"

\* The i-th event (0-based) of the fallback scaffold.
FallbackEvent(i, baseDur) ==
    LET durCategory == i % 6
        duration == IF durCategory < 3 THEN 220 + (i % 3) * 40
                    ELSE IF durCategory < 5 THEN 520 + (i % 4) * 80 ELSE 1200
        \* phase = i / 24 against 0.2, 0.6 and 0.85
        velocity == IF 10 * i < 2 * 24 THEN 60 + (i % 4) * 4
                    ELSE IF 10 * i < 6 * 24 THEN 75 + (i % 5) * 5
                    ELSE IF 100 * i < 85 * 24 THEN 90 + (i % 3) * 6
                    ELSE 70 + (i % 4) * 5
        midi == 60 + ((i * 5) % 16)
    IN  [noteName |-> midiToNoteName(Min(96, Max(36, midi))),
         time |-> RoundDiv(i * baseDur, 24),
         duration |-> Min(1800, duration),
         velocity |-> Num(Min(110, velocity))]

FallbackScaffold(target) ==
    LET baseDur == IF target # 0 THEN target ELSE 8000
    IN  [i \in 1..24 |-> FallbackEvent(i - 1, baseDur)]

\* Lines 359-406: map, filter and, when nothing survives, the scaffold.
Normalize ==
    /\ stage = "start"
    /\ IF MapThrows(rawEvents)
       THEN /\ stage' = "threw"
            /\ UNCHANGED events
       ELSE /\ stage' = "normalized"
            /\ events' = (LET OrScaffold(mapped) ==
                                  IF Len(mapped) = 0
                                  THEN FallbackScaffold(targetDurationMs)
                                  ELSE mapped
                          IN  OrScaffold(MapFilterRaw(rawEvents)))
    /\ UNCHANGED <<rawEvents, targetDurationMs, segments, codecVars, routeVars, applyVars>>

----------------------------------------------------------------------------
(* SpecNorm: the Normalizer on every list of at most MaxRawLen raw entries   *)

MaxRawLen == 2

Obj(noteName, pitch, time, noteType, duration, velocity) ==
    [kind |-> "object", noteName |-> noteName, pitch |-> pitch, time |-> time,
     noteType |-> noteType, duration |-> duration, velocity |-> velocity]

\* JSON null and a JSON primitive (a number, a string) as list entries
RawNull == [Obj(<<>>, <<>>, Undefined, <<>>, Undefined, Undefined) EXCEPT !.kind = "null"]
RawPrimitive ==
    [Obj(<<>>, <<>>, Undefined, <<>>, Undefined, Undefined) EXCEPT !.kind = "primitive"]

RawEntries ==
    { RawNull,
      RawPrimitive,
      \* well formed, label and numeric duration both given
      Obj(<< <<"C", "4">> >>, <<>>, Num(0), <<"quarter">>, Num(480), Num(78)),
      \* unparseable pitch name
      Obj(<< <<"H", "9">> >>, <<>>, Num(0), <<"eighth">>, Num(240), Num(70)),
      \* legacy pitch field, raw numeric duration only, no velocity
      Obj(<<>>, << <<"B", "b", "3">> >>, Num(500), <<>>, Num(240), Undefined),
      \* non-numeric time
      Obj(<< <<"G", "#", "5">> >>, <<>>, Str, <<"half">>, Num(1000), Num(90)),
      \* pitch below the working range, negative time, upper-case label,
      \* velocity 1e999
      Obj(<< <<"c", "-", "1">> >>, <<>>, Num(-40), <<"WHOLE">>, Undefined, PosInf),
      \* unknown label, non-numeric velocity
      Obj(<< <<"E", "4">> >>, <<>>, Num(1000), <<"dotted">>, Num(300), Str),
      \* numeric duration NaN-free but huge, velocity -1e999
      Obj(<< <<"A", "4">> >>, <<>>, Num(250), <<>>, PosInf, NegInf),
      \* time missing
      Obj(<< <<"D", "5">> >>, <<>>, Undefined, <<"quarter">>, Num(500), Num(80)),
      \* neither label nor numeric duration, velocity above the range
      Obj(<< <<"F", "4">> >>, <<>>, Num(1500), <<>>, Str, Num(200)),
      \* pitch above the working range, sixteenth, velocity null
      Obj(<< <<"G", "9">> >>, <<>>, Num(2000), <<"sixteenth">>, Num(125), Null),
      \* raw numeric duration between two canonical values, velocity below range
      Obj(<< <<"D", "4">> >>, <<>>, Num(750), <<>>, Num(1100), Num(10)) }

RECURSIVE SeqsUpTo(_, _)
SeqsUpTo(S, n) ==
    IF n = 0 THEN { <<>> }
    ELSE LET shorter == SeqsUpTo(S, n - 1)
         IN  shorter \cup { Append(s, x) : s \in { t \in shorter : Len(t) = n - 1 }, x \in S }

NormTargets == {3000, 8000}

NormInit ==
    /\ stage = "start"
    /\ rawEvents \in SeqsUpTo(RawEntries, MaxRawLen)
    /\ targetDurationMs \in NormTargets
    /\ segments = <<>>
    /\ events = <<>>
    /\ CodecIdle
    /\ ApplyIdle
    /\ RouteIdle

SpecNorm == NormInit /\ [][Normalize]_vars

CanonicalDurations == {125, 250, 500, 1000, 2000}

NormDone == stage \in {"normalized", "threw"}

\* raw.velocity is absent (undefined, null) or not a finite number
VelocityAbsentOrNonFinite(raw) == ~IsFinite(ToNumber(Coalesce(raw.velocity, NaN)))

\* C2: for any raw list the Normalizer does not throw and ends with a
\* non-empty event list.
C2_NeverThrowsNonEmpty == NormDone => (stage = "normalized" /\ Len(events) >= 1)

\* C8 (as claimed): every event the Normalizer returns has a canonical duration.
C8_AllCanonical ==
    stage = "normalized" =>
        \A i \in 1..Len(events) : events[i].duration \in CanonicalDurations

FallbackDurations == {220, 260, 300, 520, 600, 680, 760, 1200}

\* C8 (amended): the events derived from surviving raw events have canonical
\* durations; when no raw event survives, the 24 events of the fallback
\* sequence have durations in {220,260,300,520,600,680,760,1200}.
C8_SurvivorsCanonical ==
    stage = "normalized" =>
        IF \E i \in 1..Len(rawEvents) : MapRaw(rawEvents[i]) # <<>>
        THEN \A i \in 1..Len(events) : events[i].duration \in CanonicalDurations
        ELSE /\ Len(events) = 24
             /\ \A i \in 1..Len(events) : events[i].duration \in FallbackDurations

\* C8 witness: a list with a survivor resolved from a label and a survivor
\* resolved from a raw numeric duration has been normalized.
C8_Witness ==
    /\ stage = "normalized"
    /\ Len(events) = 2
    /\ rawEvents[1].noteType # <<>>
    /\ rawEvents[2].noteType = <<>> /\ rawEvents[2].duration = Num(1100)
    /\ events[2].duration = 1000

\* C9: every normalized velocity is an integer in [40,110], and it is 80 when
\* the raw velocity is absent or not finite.
C9_VelocityClamped ==
    stage = "normalized" =>
        /\ \A i \in 1..Len(events) :
              /\ events[i].velocity.k = "num"
              /\ events[i].velocity.v >= 40 /\ events[i].velocity.v <= 110
        /\ \A i \in 1..Len(rawEvents) :
              (MapRaw(rawEvents[i]) # <<>> /\ VelocityAbsentOrNonFinite(rawEvents[i]))
                  => MapRaw(rawEvents[i])[1].velocity = Num(80)

----------------------------------------------------------------------------
(* Scale Detector of the route: detectScale                                  *)

LowerChar(c) ==
    CASE c = "A" -> "a" [] c = "B" -> "b" [] c = "C" -> "c" [] c = "D" -> "d"
      [] c = "E" -> "e" [] c = "F" -> "f" [] c = "G" -> "g" [] c = "H" -> "h"
      [] c = "I" -> "i" [] c = "J" -> "j" [] c = "K" -> "k" [] c = "L" -> "l"
      [] c = "M" -> "m" [] c = "N" -> "n" [] c = "O" -> "o" [] c = "P" -> "p"
      [] c = "Q" -> "q" [] c = "R" -> "r" [] c = "S" -> "s" [] c = "T" -> "t"
      [] c = "U" -> "u" [] c = "V" -> "v" [] c = "W" -> "w" [] c = "X" -> "x"
      [] c = "Y" -> "y" [] c = "Z" -> "z" [] OTHER -> c

\* s.toLowerCase() on a character sequence
LowerStr(s) == [i \in 1..Len(s) |-> LowerChar(s[i])]

\* words.join(' ')
RECURSIVE JoinSpace(_)
JoinSpace(words) ==
    IF words = <<>> THEN <<>>
    ELSE IF Len(words) = 1 THEN words[1]
    ELSE words[1] \o <<" ">> \o JoinSpace(Tail(words))

\* s.includes(sub)
Contains(s, sub) ==
    \E i \in 1..(Len(s) - Len(sub) + 1) : SubSeq(s, i, i + Len(sub) - 1) = sub

\* /(a|b|...)/.test(s)
TestAny(stems, s) == \E stem \in stems : Contains(s, stem)

RoutePositiveStems ==
    { <<"h", "a", "p", "p", "y">>, <<"b", "r", "i", "g", "h", "t">>, <<"c", "e", "l", "e", "b", "r", "a", "t">>, <<"e", "x", "c", "i", "t", "e">>, <<"u", "p", "l", "i", "f", "t">>, <<"t", "r", "i", "u", "m", "p", "h">>,
      <<"j", "o", "y">>, <<"e", "n", "e", "r", "g", "e", "t", "i", "c">>, <<"c", "r", "o", "w", "d">> }
RouteNegativeStems ==
    { <<"s", "a", "d">>, <<"t", "e", "n", "s", "e">>, <<"d", "a", "r", "k">>, <<"m", "e", "l", "a", "n", "c", "h">>, <<"s", "o", "m", "b", "e", "r">>, <<"p", "r", "e", "s", "s", "u", "r", "e">>,
      <<"i", "n", "t", "e", "n", "s", "e">>, <<"d", "e", "f", "e", "a", "t">>, <<"l", "o", "s", "s">> }

MajorIntervals == <<0, 2, 4, 5, 7, 9, 11>>
MinorIntervals == <<0, 2, 3, 5, 7, 8, 10>>

majorScale(r) == [i \in 1..7 |-> (MajorIntervals[i] + r) % 12]
minorScale(r) == [i \in 1..7 |-> (MinorIntervals[i] + r) % 12]

SeqRange(s) == { s[i] : i \in 1..Len(s) }

\* The pitch classes of the events whose name parses (pcs), in order.
ParsedPcs(evs) ==
    LET Classes(parsed) ==
            [i \in 1..Len(parsed) |->
                JsMod(JsMod(noteNameToMidiLoose(parsed[i].noteName)[1], 12) + 12, 12)]
    IN  Classes(SelectSeq(evs, LAMBDA e : noteNameToMidiLoose(e.noteName) # <<>>))

\* counts[pc]
PcCounts(pcs) == [c \in 0..11 |-> Cardinality({ i \in 1..Len(pcs) : pcs[i] = c })]

\* score = inScale - 0.35 * (total - inScale), kept as 20 * score
ScaleScore20(scale, counts, total) ==
    LET Score(inScale) == 20 * inScale - 7 * (total - inScale)
    IN  Score(SumSeq([i \in 1..Len(scale) |-> counts[scale[i]]]))

\* The 24 candidates in loop order: r = 0..11, major before minor.
Candidate(k, counts, total) ==
    LET r == (k - 1) \div 2
        mode == IF (k - 1) % 2 = 0 THEN "major" ELSE "minor"
        scale == IF mode = "major" THEN majorScale(r) ELSE minorScale(r)
    IN  [score |-> ScaleScore20(scale, counts, total), rootPc |-> r,
         mode |-> mode, scale |-> scale]

\* The best-candidate loop with a later candidate replacing an equal score.
BestUpTo_LastWins(k, counts, total) ==
    Loop(LAMBDA best, j :
            LET Later(c) == IF c.score >= best.score THEN c ELSE best
            IN  Later(Candidate(j, counts, total)),
         Candidate(1, counts, total), 2, k)

\* best after the first k candidates: replaced only by a strictly larger score
BestUpTo(k, counts, total) ==
    Loop(LAMBDA best, j :
            LET Better(c) == IF c.score > best.score THEN c ELSE best
            IN  Better(Candidate(j, counts, total)),
         Candidate(1, counts, total), 2, k)

\* moodStr of detectScale
RouteMoodStr(segs) == JoinSpace([i \in 1..Len(segs) |-> LowerStr(segs[i].mood)])

\* The mood left out of the decision
MoodOverride_Ignored(best, counts, total, moodStr) == best

\* Mood override heuristics (lines 79-95)
MoodOverride(best, counts, total, moodStr) ==
    LET Within1(alt, altScore, mode) ==
            IF altScore >= best.score - 20
            THEN [score |-> altScore, rootPc |-> best.rootPc,
                  mode |-> mode, scale |-> alt]
            ELSE best
        Switch(alt, mode) == Within1(alt, ScaleScore20(alt, counts, total), mode)
        Decide(positive, negative) ==
            IF positive /\ ~negative
            THEN (IF best.mode = "minor"
                  THEN Switch(majorScale(best.rootPc), "major") ELSE best)
            ELSE IF negative /\ ~positive
            THEN (IF best.mode = "major"
                  THEN Switch(minorScale(best.rootPc), "minor") ELSE best)
            ELSE best
    IN  Decide(TestAny(RoutePositiveStems, moodStr),
               TestAny(RouteNegativeStems, moodStr))

\* detectScale(events, videoAnalysis): null (<<>>) or <<ScaleContext>>.
\* segs is videoAnalysis?.segments || [].
detectScale(evs, segs) ==
    LET Context(best) ==
            << [rootPc |-> best.rootPc, mode |-> best.mode,
                scalePcs |-> SeqRange(best.scale),
                rootName |-> PITCH_CLASS[best.rootPc + 1]] >>
        Scored(counts, total) ==
            Context(MoodOverride(BestUpTo(24, counts, total), counts, total,
                                 RouteMoodStr(segs)))
        Counted(pcs) ==
            IF Len(pcs) = 0 THEN <<>> ELSE Scored(PcCounts(pcs), Len(pcs))
    IN  IF Len(evs) = 0 THEN <<>> ELSE Counted(ParsedPcs(evs))

----------------------------------------------------------------------------
(* SpecScale: detectScale on every list of at most MaxScaleEvents names and  *)
(* a choice of mood labels                                                   *)

MaxScaleEvents == 3

\* the seven white keys in several octaves, a white key spelled with a flat,
\* three black keys and a name that does not parse
WhiteNames ==
    { <<"C", "4">>, <<"D", "3">>, <<"E", "5">>, <<"F", "4">>, <<"G", "2">>, <<"A", "4">>, <<"B", "4">>, <<"C", "b", "5">> }
ScaleNames == WhiteNames \cup { <<"C", "#", "4">>, <<"B", "b", "3">>, <<"F", "#", "4">>, <<"H", "4">> }

MoodSeg(mood) ==
    [startMs |-> 0, endMs |-> 1000, intensity |-> 50, mood |-> mood,
     motionSpeed |-> <<5>>]

MoodChoices ==
    { <<>>,
      <<MoodSeg(<<"c", "a", "l", "m">>)>>,
      <<MoodSeg(<<"H", "a", "p", "p", "y">>), MoodSeg(<<"b", "r", "i", "g", "h", "t">>)>>,
      <<MoodSeg(<<"c", "a", "l", "m">>), MoodSeg(<<"T", "e", "n", "s", "e">>)>>,
      <<MoodSeg(<<"j", "o", "y", "f", "u", "l">>), MoodSeg(<<"d", "a", "r", "k">>)>> }

ScaleInit ==
    /\ stage = "scale-input"
    /\ events \in SeqsUpTo({ [noteName |-> n] : n \in ScaleNames }, MaxScaleEvents)
    /\ segments \in MoodChoices
    /\ rawEvents = <<>>
    /\ targetDurationMs = 0
    /\ CodecIdle
    /\ ApplyIdle
    /\ RouteIdle

DetectScaleOnly ==
    /\ stage = "scale-input"
    /\ detectedScale' = detectScale(events, segments)
    /\ stage' = "scale-detected"
    /\ UNCHANGED <<rawEvents, targetDurationMs, segments, events, targetDuration,
                   planEnd, attempt, fallbackUsed, tempVideo, codecVars, applyVars>>

SpecScale == ScaleInit /\ [][DetectScaleOnly]_vars

WhitePcs == {0, 2, 4, 5, 7, 9, 11}

\* a non-empty list whose names all parse to white-key pitch classes
AllWhiteKeys(evs) ==
    /\ Len(evs) >= 1
    /\ Len(ParsedPcs(evs)) = Len(evs)
    /\ SeqRange(ParsedPcs(evs)) \subseteq WhitePcs

\* C10 (as claimed): white-key events give root C and mode major, whatever
\* the mood labels are.
C10_WhiteKeysCMajor ==
    (stage = "scale-detected" /\ AllWhiteKeys(events)) =>
        /\ detectedScale # <<>>
        /\ detectedScale[1].rootPc = 0
        /\ detectedScale[1].mode = "major"

\* the mood text matches the negative lexicon and not the positive one
NegativeOnlyMood(segs) ==
    /\ TestAny(RouteNegativeStems, RouteMoodStr(segs))
    /\ ~TestAny(RoutePositiveStems, RouteMoodStr(segs))

\* C10 (amended): white-key events give root C; the mode is major, except that
\* it is minor when the mood is negative-only and no event has pitch class
\* E, A or B (the white keys outside C minor).
C10_WhiteKeysRootC ==
    (stage = "scale-detected" /\ AllWhiteKeys(events)) =>
        /\ detectedScale # <<>>
        /\ detectedScale[1].rootPc = 0
        /\ detectedScale[1].mode =
              (IF NegativeOnlyMood(segments)
                    /\ SeqRange(ParsedPcs(events)) \cap {4, 9, 11} = {}
               THEN "minor" ELSE "major")

\* C10 witness: three white-key events that are not all in C minor, under a
\* negative-only mood, were detected as C major.
C10_Witness ==
    /\ stage = "scale-detected"
    /\ Len(events) = 3
    /\ AllWhiteKeys(events)
    /\ NegativeOnlyMood(segments)
    /\ 11 \in SeqRange(ParsedPcs(events))
    /\ detectedScale[1].rootPc = 0
    /\ detectedScale[1].mode = "major"

----------------------------------------------------------------------------
(* Helpers on event lists                                                    *)

SetMax(S) == CHOOSE m \in S : \A x \in S : x <= m
SetMin(S) == CHOOSE m \in S : \A x \in S : m <= x

\* noteNameToMidi(e.noteName)! of an event of the working list
Midi(e) == noteNameToMidi(e.noteName)[1]

\* No clamp at all
Clamp_Unclamped(n) == n

\* Math.min(96, Math.max(36, n))
Clamp(n) == Min(96, Max(36, n))

\* list.reduce((m, e) => Math.max(m, e.time + e.duration), 0)
EndOf(evs) == SetMax({0} \cup { evs[i].time + evs[i].duration : i \in 1..Len(evs) })

\* Array.prototype.sort is stable: the elements of s in ascending order of
\* their keys, equal keys in their order in s.
SortByKey(s, keys) ==
    LET n == Len(s)
        rank == [i \in 1..n |->
                   1 + Cardinality({ j \in 1..n :
                         keys[j] < keys[i] \/ (keys[j] = keys[i] /\ j < i) })]
    IN  [p \in 1..n |-> s[CHOOSE i \in 1..n : rank[i] = p]]

\* list.sort((a, b) => a.time - b.time)
SortByTime(s) == SortByKey(s, [i \in 1..Len(s) |-> s[i].time])

\* list.sort((a, b) => a.time - b.time || midi(a) - midi(b))
SortByTimeThenPitch(s) ==
    SortByKey(s, [i \in 1..Len(s) |-> s[i].time * 128 + Midi(s[i])])

UniqueNames(evs) == Cardinality({ evs[i].noteName : i \in 1..Len(evs) })
UniqueDurations(evs) == Cardinality({ evs[i].duration : i \in 1..Len(evs) })

\* (e.velocity ?? d) + n, then Math.min(hi, Math.max(lo, .))
VelShift(e, n, lo, hi) == JsMax(Num(lo), JsMin(Num(hi), JsPlus(e.velocity, n)))
VelShiftMin(e, n, hi) == JsMin(Num(hi), JsPlus(e.velocity, n))

----------------------------------------------------------------------------
(* Math.random(): a pass that draws random numbers takes one tape; the i-th  *)
(* draw of the pass is the i-th value of the tape (cyclically), in           *)
(* hundredths.                                                               *)

NumTapes == 2

Tapes ==
    << <<10, 80, 45>>,
       <<80, 35, 10, 60>>,
       <<55, 5, 95>>,
       <<31, 72>> >>

\* the i-th draw (i >= 0) of tape t, a number of hundredths in 0..99
Draw(t, i) == Tapes[t][(i % Len(Tapes[t])) + 1]

\* arr[Math.floor(Math.random() * arr.length)]
Pick(arr, d) == arr[((d * Len(arr)) \div 100) + 1]

----------------------------------------------------------------------------
(* requestMusicalPlan: early monotony guard (lines 408-432)                  *)

\* injected[i] for the i-th event (0-based i)
EarlyInjected(e, i) ==
    [noteName |-> midiToNoteName(Clamp(Midi(e) + (IF i % 2 = 1 THEN 5 ELSE -3))),
     time |-> e.time + RoundDiv(45 * e.duration, 100),
     duration |-> Max(160, RoundDiv(35 * e.duration, 100)),
     velocity |-> VelShiftMin(e, 10, 110)]

EarlyMonotonyGuard ==
    /\ stage = "normalized"
    /\ stage' = "guarded"
    /\ events' =
          (IF UniqueNames(events) <= 4 \/ UniqueDurations(events) <= 2
           THEN LET k == Min(Len(events), 6)
                    injected == [i \in 1..k |-> EarlyInjected(events[i], i - 1)]
                IN  SortByTime(events \o injected)
           ELSE events)
    /\ UNCHANGED <<rawEvents, targetDurationMs, segments, codecVars, routeVars, applyVars>>

----------------------------------------------------------------------------
(* requestMusicalPlan: pitch / variation enhancement layer (lines 434-595)   *)

LibPositiveStems ==
    { <<"c", "a", "l", "m">>, <<"b", "r", "i", "g", "h", "t">>, <<"h", "a", "p", "p", "y">>, <<"c", "e", "l", "e", "b", "r", "a", "t">>, <<"v", "i", "c", "t", "o", "r">>, <<"j", "o", "y">>,
      <<"e", "x", "c", "i", "t", "e">>, <<"t", "r", "i", "u", "m", "p", "h">>, <<"u", "p", "l", "i", "f", "t">>, <<"c", "h", "e", "e", "r">> }
LibNegativeStems ==
    { <<"s", "a", "d">>, <<"d", "a", "r", "k">>, <<"i", "n", "t", "e", "n", "s", "e">>, <<"p", "r", "e", "s", "s", "u", "r", "e">>, <<"c", "r", "i", "t", "i", "c", "a", "l">>, <<"d", "e", "f", "e", "a", "t">>,
      <<"l", "o", "s", "s">>, <<"m", "e", "l", "a", "n", "c", "h">>, <<"g", "l", "o", "o", "m">>, <<"s", "o", "m", "b", "e", "r">>, <<"t", "e", "n", "s", "e">> }
LibBuildStems ==
    { <<"b", "u", "i", "l", "d">>, <<"r", "i", "s", "i", "n", "g">>, <<"c", "r", "o", "w", "d">>, <<"e", "n", "e", "r", "g", "y">>, <<"e", "n", "e", "r", "g", "e", "t", "i", "c">>, <<"h", "y", "p", "e">> }
LibResolveStems ==
    { <<"r", "e", "s", "o", "l", "v", "e">>, <<"c", "o", "o", "l", "d", "o", "w", "n">>, <<"t", "r", "a", "n", "s", "i", "t", "i", "o", "n">>, <<"r", "e", "l", "e", "a", "s", "e">>, <<"s", "e", "t", "t", "l", "e">> }

\* moodWords.join(' ').toLowerCase(); empty mood labels are filtered out
RECURSIVE NonEmptyMoods(_)
NonEmptyMoods(segs) ==
    IF segs = <<>> THEN <<>>
    ELSE (IF Head(segs).mood = <<>> THEN <<>> ELSE <<Head(segs).mood>>)
         \o NonEmptyMoods(Tail(segs))
LibMoodStr(segs) == LowerStr(JoinSpace(NonEmptyMoods(segs)))

scaleOptions == <<"minor", "major", "dorian", "mixolydian", "lydian", "phrygian">>

\* scaleType after the mood hints; d0, d1, d2 are the three draws it uses
ChooseScaleType(segs, d0, d1, d2) ==
    LET Hinted(moodStr, pos, neg) ==
            IF pos /\ ~neg THEN (IF d2 > 30 THEN "major" ELSE "lydian")
            ELSE IF neg /\ ~pos THEN (IF d2 > 30 THEN "minor" ELSE "phrygian")
            ELSE IF TestAny(LibBuildStems, moodStr)
                 THEN (IF d2 > 50 THEN "mixolydian" ELSE "dorian")
            ELSE IF TestAny(LibResolveStems, moodStr)
                 THEN (IF d2 > 50 THEN "dorian" ELSE "major")
            ELSE Pick(scaleOptions, d0)
        Tested(moodStr) ==
            Hinted(moodStr, TestAny(LibPositiveStems, moodStr),
                   TestAny(LibNegativeStems, moodStr))
    IN  IF d1 > 30 THEN Tested(LibMoodStr(segs)) ELSE Pick(scaleOptions, d0)

majorRoots == <<48, 50, 52, 53, 55, 57, 59, 60, 62, 64, 65, 67>>
minorRoots == <<45, 47, 48, 50, 52, 53, 55, 57, 58, 60, 62>>

\* rootMidi; d is the draw of pick()
ChooseRoot(scaleType, d) ==
    LET chosenRoot == IF scaleType = "major" THEN Pick(majorRoots, d)
                      ELSE IF scaleType = "minor" THEN Pick(minorRoots, d)
                      ELSE Pick(majorRoots \o minorRoots, d)
    IN  Min(72, Max(36, chosenRoot))

scaleIntervals(scaleType) ==
    CASE scaleType = "major" -> <<0, 2, 4, 5, 7, 9, 11>>
      [] scaleType = "minor" -> <<0, 2, 3, 5, 7, 8, 10>>
      [] scaleType = "dorian" -> <<0, 2, 3, 5, 7, 9, 10>>
      [] scaleType = "mixolydian" -> <<0, 2, 4, 5, 7, 9, 10>>
      [] scaleType = "lydian" -> <<0, 2, 4, 6, 7, 9, 11>>
      [] scaleType = "phrygian" -> <<0, 1, 3, 5, 7, 8, 10>>

\* the first interval of the scale at minimal distance from within
RECURSIVE NearestInterval(_, _, _, _, _)
NearestInterval(chosenScale, k, within, best, dist) ==
    IF k > Len(chosenScale) THEN best
    ELSE LET d == Abs(chosenScale[k] - within)
         IN  IF d < dist THEN NearestInterval(chosenScale, k + 1, within, chosenScale[k], d)
             ELSE NearestInterval(chosenScale, k + 1, within, best, dist)

nearestScaleNote(m, rootMidi, chosenScale) ==
    LET Snap(octave, within) ==
            IF within \in SeqRange(chosenScale)
            THEN Clamp(rootMidi + octave * 12 + within)
            ELSE Clamp(rootMidi + octave * 12
                       + NearestInterval(chosenScale, 1, within, within, 99))
    IN  Snap(FloorDiv(m - rootMidi, 12), JsMod(JsMod(m - rootMidi, 12) + 12, 12))

\* segmentIntensity(t) in hundredths; 50 when there are no segments
segmentIntensity(segs, t) ==
    IF Len(segs) = 0 THEN 50
    ELSE LET hit == { i \in 1..Len(segs) : t >= segs[i].startMs /\ t < segs[i].endMs }
             seg == IF hit = {} THEN segs[Len(segs)] ELSE segs[SetMin(hit)]
         IN  Min(100, Max(0, seg.intensity))

\* (band.low + band.high) / 2 of pickBandForIntensity(x)
BandCenter(x) == IF x < 33 THEN 56 ELSE IF x < 66 THEN 63 ELSE 70

\* The map callback of the layer for events[i] (1-based i; the code's index is
\* i - 1).  old is the list before the map.
VaryEvent(old, i, segs, rootMidi, chosenScale, seedVariant, uniqueBefore, uniformDuration) ==
    LET e == old[i]
        j == i - 1
        diversifySeed == JsMod(seedVariant + j * 17, 5)
        dur1 == IF uniformDuration /\ j % 3 = 0
                THEN Max(150, RoundDiv(55 * e.duration, 100)) ELSE e.duration
        dur2 == IF uniformDuration /\ j % 7 = 0
                THEN Min(2000, RoundDiv(18 * dur1, 10)) ELSE dur1
    IN  Then(segmentIntensity(segs, e.time), LAMBDA intensity :
        Then(BandCenter(intensity), LAMBDA bandCenter :
        Then(IF uniqueBefore <= 4
             THEN RoundDiv(100 * (bandCenter + ((j % 5) - 2) * 2) + 8 * intensity - 400, 100)
             ELSE RoundDiv(60 * Midi(e) + 40 * bandCenter + 6 * intensity - 300, 100),
             LAMBDA adj0 :
        Then(nearestScaleNote(adj0, rootMidi, chosenScale), LAMBDA adj1 :
        Then(IF j < 6 /\ diversifySeed = 0 THEN Clamp(adj1 - 12)
             ELSE IF j < 6 /\ diversifySeed = 1 THEN Clamp(adj1 + 12)
             ELSE adj1,
             LAMBDA adj2 :
        Then(IF j >= 4
                /\ Midi(old[i - 4]) < Midi(old[i - 3])
                /\ Midi(old[i - 3]) < Midi(old[i - 2])
                /\ Midi(old[i - 2]) < Midi(old[i - 1])
                /\ Midi(old[i - 1]) = adj2
             THEN nearestScaleNote(adj2 + (IF j % 2 = 1 THEN -3 ELSE 5), rootMidi, chosenScale)
             ELSE adj2,
             LAMBDA adj3 :
        [e EXCEPT !.noteName = midiToNoteName(adj3), !.duration = dur2]))))))

\* chosenScale.indexOf(x): 0-based index or -1
IndexOf(seq, x) ==
    IF \E k \in 1..Len(seq) : seq[k] = x
    THEN SetMin({ k \in 1..Len(seq) : seq[k] = x }) - 1
    ELSE -1

\* The injection loop of the post-adjust diversity check: every step-th event
\* is visited until 6 injections are made.
DiversityInjections(evs, rootMidi, chosenScale) ==
    LET step == Max(2, FloorDiv(Len(evs), 10))
        Injection(e) ==
            Then(Midi(e), LAMBDA midi :
            Then(IndexOf(chosenScale, JsMod(JsMod(midi - rootMidi, 12) + 12, 12)),
                 LAMBDA idx :
            IF idx >= 0
            THEN << [noteName |->
                        midiToNoteName(
                           Clamp(rootMidi + 12 * FloorDiv(midi - rootMidi, 12)
                                 + chosenScale[((idx + 1) % Len(chosenScale)) + 1])),
                     time |-> e.time + RoundDiv(5 * e.duration, 10),
                     duration |-> Max(150, RoundDiv(4 * e.duration, 10)),
                     velocity |-> VelShiftMin(e, 8, 110)] >>
            ELSE <<>>))
        Body(injections, j) ==
            IF j % step = 0 /\ Len(injections) < 6
            THEN injections \o Injection(evs[j + 1]) ELSE injections
    IN  Loop(Body, <<>>, 0, Len(evs) - 1)

\* The mid-band mitigation loop: at most 6 events of C4..B4 are moved an octave.
MidBandShift(evs, seedVariant) ==
    LET Body(st, j) ==
            LET dir == IF JsMod(seedVariant + j * 31, 2) # 0 THEN -12 ELSE 12
            IN  Then(Midi(st.evs[j + 1]), LAMBDA m :
                Then(Clamp(m + dir), LAMBDA candidate :
                IF st.shifted < 6 /\ m >= 60 /\ m <= 71
                   /\ (candidate < 60 \/ candidate > 71)
                   /\ candidate >= 36 /\ candidate <= 90
                THEN [evs |-> [st.evs EXCEPT ![j + 1].noteName = midiToNoteName(candidate)],
                      shifted |-> st.shifted + 1]
                ELSE st))
    IN  Loop(Body, [evs |-> evs, shifted |-> 0], 0, Len(evs) - 1).evs

\* seedBase % 9973 of the tapes (the hash of the segments xor the clock)
SeedBases == <<0, 3, -6, 4861>>

VariationLayer(evs, segs, t) ==
    LET seedVariant == SeedBases[t] + 10 * Draw(t, 3)
        uniqueBefore == Cardinality({ Midi(evs[i]) : i \in 1..Len(evs) })
        uniformDuration == \A i \in 1..Len(evs) : evs[i].duration = evs[1].duration
        MidBand(list) ==
            Cardinality({ i \in 1..Len(list) : Midi(list[i]) \in 60..71 })
    IN  Then(ChooseScaleType(segs, Draw(t, 0), Draw(t, 1), Draw(t, 2)), LAMBDA scaleType :
        Then(ChooseRoot(scaleType, Draw(t, 4)), LAMBDA rootMidi :
        Then(scaleIntervals(scaleType), LAMBDA chosenScale :
        Then([i \in 1..Len(evs) |->
                 VaryEvent(evs, i, segs, rootMidi, chosenScale, seedVariant,
                           uniqueBefore, uniformDuration)],
             LAMBDA mapped :
        Then(IF UniqueNames(mapped) < Min(8, CeilDiv(Len(mapped), 3))
             THEN DiversityInjections(mapped, rootMidi, chosenScale)
             ELSE <<>>,
             LAMBDA injections :
        Then(IF Len(injections) > 0 THEN SortByTime(mapped \o injections) ELSE mapped,
             LAMBDA withInj :
        IF 100 * MidBand(withInj) > 55 * Len(withInj)
        THEN MidBandShift(withInj, seedVariant)
        ELSE withInj))))))

Variation ==
    /\ stage = "guarded"
    /\ stage' = "varied"
    /\ \E t \in 1..NumTapes : events' = VariationLayer(events, segments, t)
    /\ UNCHANGED <<rawEvents, targetDurationMs, segments, codecVars, routeVars, applyVars>>

----------------------------------------------------------------------------
(* requestMusicalPlan: enrichPlan (lines 597-690)                            *)

maxEvents == 80

\* Two events sound at the same instant: neither ends before the other starts
Overlaps(p, e) == ~(p.time + p.duration <= e.time \/ e.time + e.duration <= p.time)

\* 1. Subdivide long notes: the additions
Subdivide(list, t) ==
    LET Body(additions, k) ==
            LET e == list[k]
            IN  IF e.duration > 1100 /\ Len(additions) + Len(list) < maxEvents
                THEN Append(additions,
                        [noteName |-> midiToNoteName(
                                         Clamp(Midi(e) + (IF Draw(t, k) > 50 THEN 2 ELSE -2))),
                         time |-> e.time + RoundDiv(5 * e.duration, 10),
                         duration |-> Max(180, RoundDiv(3 * e.duration, 10)),
                         velocity |-> VelShiftMin(e, 5, 110)])
                ELSE additions
    IN  Loop(Body, <<>>, 1, Len(list))

\* 2. Fill large silent gaps with passing notes: the gapAdds
FillLargeGaps(list, t) ==
    LET Body(gapAdds, k) ==
            LET cur == list[k]
                gapStart == cur.time + cur.duration
                gap == list[k + 1].time - gapStart
            IN  IF gap > 600 /\ Len(gapAdds) + Len(list) < maxEvents
                THEN Append(gapAdds,
                        [noteName |-> midiToNoteName(
                                         Clamp(Midi(cur) + (IF Draw(t, k + 1) < 50 THEN 5 ELSE -3))),
                         time |-> gapStart + 120,
                         duration |-> Min(400, gap - 200),
                         velocity |-> VelShift(cur, 8, 50, 100)])
                ELSE gapAdds
    IN  Loop(Body, <<>>, 1, Len(list) - 1)

\* 3. Harmonic layer on every 4th event
HarmonyLayer(list, t) ==
    LET Body(harmony, j) ==
            LET e == list[j + 1]
            IN  Then(Midi(e) + (IF Draw(t, j + 2) < 50 THEN 4 ELSE 7), LAMBDA hNote :
                IF j % 4 = 0 /\ Len(list) + Len(harmony) < maxEvents /\ hNote <= 84
                THEN Append(harmony,
                        [noteName |-> midiToNoteName(hNote),
                         time |-> e.time + 10,
                         duration |-> Max(150, RoundDiv(55 * e.duration, 100)),
                         velocity |-> VelShift(e, -5, 45, 100)])
                ELSE harmony)
    IN  Loop(Body, <<>>, 0, Len(list) - 1)

\* 4. Light velocity humanization
Humanize(list, t) ==
    [k \in 1..Len(list) |->
        [list[k] EXCEPT !.velocity =
            VelShift(list[k], RoundDiv(12 * (Draw(t, k + 3) - 50), 100), 40, 110)]]

\* 5. An event is dropped when three kept events already overlap it; the scan
\* stops at maxEvents kept events
PruneOverlaps(list) ==
    LET Body(pruned, k) ==
            IF Len(pruned) >= maxEvents
               \/ Cardinality({ i \in 1..Len(pruned) : Overlaps(pruned[i], list[k]) }) >= 3
            THEN pruned
            ELSE Append(pruned, list[k])
    IN  Loop(Body, <<>>, 1, Len(list))

\* 6. Scale times and durations by target / end, durations floored at minDur
ScaleTo(evs, target, minDur) ==
    LET Scaled(end) ==
            IF target > 0 /\ Len(evs) > 0 /\ end > 0
            THEN [k \in 1..Len(evs) |->
                    [evs[k] EXCEPT !.time = RoundDiv(evs[k].time * target, end),
                                   !.duration = Max(minDur,
                                                    RoundDiv(evs[k].duration * target, end))]]
            ELSE evs
    IN  Scaled(EndOf(evs))

enrichPlan(evts, target, t) ==
    Then(SortByTime(evts), LAMBDA list0 :
    Then(SortByTime(list0 \o Subdivide(list0, t)), LAMBDA list1 :
    Then(list1 \o FillLargeGaps(list1, t), LAMBDA list2 :
    Then(list2 \o HarmonyLayer(list2, t), LAMBDA list3 :
    Then(SortByTimeThenPitch(Humanize(list3, t)), LAMBDA list4 :
    Then(PruneOverlaps(list4), LAMBDA pruned :
    SortByTime(ScaleTo(pruned, target, 120))))))))

Enrich ==
    /\ stage = "varied"
    /\ stage' = "enriched"
    /\ \E t \in 1..NumTapes : events' = enrichPlan(events, targetDurationMs, t)
    /\ UNCHANGED <<rawEvents, targetDurationMs, segments, codecVars, routeVars, applyVars>>

----------------------------------------------------------------------------
(* requestMusicalPlan: pattern breaker (lines 694-709) and minEvents top-up  *)
(* (lines 711-727)                                                           *)

cycleLen == 4

\* events[i] of the second cycle after the mutation (0-based i)
BrokenEvent(e, i) ==
    [e EXCEPT !.noteName = midiToNoteName(Clamp(Midi(e) + (IF i % 2 = 0 THEN 3 ELSE -2))),
              !.duration = Max(150, Min(2000,
                              RoundDiv(e.duration * (IF i % 2 = 1 THEN 95 ELSE 60), 100)))]

PatternBreaker ==
    /\ stage = "enriched"
    /\ stage' = "broken"
    /\ events' =
          (IF Len(events) >= cycleLen * 2
              /\ \A k \in 1..cycleLen : Midi(events[k]) = Midi(events[k + cycleLen])
           THEN [k \in 1..Len(events) |->
                   IF k - 1 >= cycleLen /\ k - 1 < cycleLen * 2
                   THEN BrokenEvent(events[k], k - 1) ELSE events[k]]
           ELSE events)
    /\ UNCHANGED <<rawEvents, targetDurationMs, segments, codecVars, routeVars, applyVars>>

minEvents(target) == Max(CeilDiv(target, 1000), 16)

\* extra[i] of the top-up (0-based i)
OrnamentEvent(evs, i) ==
    LET anchor == evs[(i % Len(evs)) + 1]
    IN  [noteName |-> midiToNoteName(Clamp(Midi(anchor) + ((i % 3) - 1) * 2)),
         time |-> anchor.time + RoundDiv(5 * anchor.duration, 10),
         duration |-> 180 + (i % 4) * 40,
         velocity |-> VelShift(anchor, IF i % 2 = 1 THEN 6 ELSE -4, 50, 100)]

EnsureMinEvents ==
    /\ stage = "broken"
    /\ stage' = "topped"
    /\ events' =
          (IF Len(events) < minEvents(targetDurationMs)
           THEN SortByTime(events \o
                   [k \in 1..(minEvents(targetDurationMs) - Len(events)) |->
                       OrnamentEvent(events, k - 1)])
           ELSE events)
    /\ UNCHANGED <<rawEvents, targetDurationMs, segments, codecVars, routeVars, applyVars>>

----------------------------------------------------------------------------
(* requestMusicalPlan: diversity / motif layer (lines 731-827)               *)

intervalChoices == <<-7, -5, -4, -3, -2, -1, 1, 2, 3, 4, 5, 7>>

\* generateMotif() for the m-th motif of the pool (0-based m), drawn from tape t
generateMotif(t, m) ==
    LET length == 3 + ((Draw(t, 7 * m) * 4) \div 100)
    IN  [i \in 1..length |-> IF i = 1 THEN 0 ELSE Pick(intervalChoices, Draw(t, 7 * m + i - 1))]

motifPool(t) == [m \in 1..8 |-> generateMotif(t, m - 1)]

\* The segments the motifs are applied to, sorted by start, with bounds in
\* quarter milliseconds: without any segment the timeline is cut in quartiles
\* of its end, which need not be whole milliseconds.
MotifSegments(segs, evs) ==
    IF Len(segs) > 0
    THEN LET sorted == SortByKey(segs, [i \in 1..Len(segs) |-> segs[i].startMs])
         IN  [i \in 1..Len(sorted) |->
                [startQ |-> 4 * sorted[i].startMs, endQ |-> 4 * sorted[i].endMs]]
    ELSE LET end == EndOf(evs)
         IN  [i \in 1..4 |-> [startQ |-> (i - 1) * end, endQ |-> i * end]]

\* Motif shaping of one segment
ShapeSegment(evs, seg, motif) ==
    Then({ i \in 1..Len(evs) :
             4 * evs[i].time >= seg.startQ /\ 4 * evs[i].time < seg.endQ },
         LAMBDA inSeg :
    IF Cardinality(inSeg) < Len(motif) THEN evs
    ELSE Then(Midi(evs[SetMin(inSeg)]), LAMBDA anchor :
         LET pos(i) == Cardinality({ j \in inSeg : j < i })
             shaped(i, p) ==
                 LET mInterval == motif[(p % Len(motif)) + 1]
                     target == anchor + mInterval
                               + (p \div Len(motif)) * (IF mInterval > 0 THEN 2 ELSE -2)
                     blended == RoundDiv(6 * Midi(evs[i]) + 4 * target, 10)
                 IN  [evs[i] EXCEPT !.noteName = midiToNoteName(Clamp(blended))]
         IN  [i \in 1..Len(evs) |->
                 IF i \in inSeg /\ pos(i) < Len(motif) * 2
                 THEN shaped(i, pos(i)) ELSE evs[i]]))

\* Motif shaping segment by segment, the motif of a segment by its index
ApplyMotifs(evs, segsQ, pool) ==
    Loop(LAMBDA cur, k : ShapeSegment(cur, segsQ[k], pool[((k - 1) % Len(pool)) + 1]),
         evs, 1, Len(segsQ))

\* Number of events carrying the name
NameCount(evs, name) == Cardinality({ i \in 1..Len(evs) : evs[i].noteName = name })

\* Array.from(counts.keys()): the distinct names in order of first occurrence
ExistingNames(evs) ==
    Loop(LAMBDA acc, k :
            IF evs[k].noteName \in SeqRange(acc) THEN acc ELSE Append(acc, evs[k].noteName),
         <<>>, 1, Len(evs))

candidateDeltas == <<-9, -7, -5, -4, -2, 2, 3, 4, 5, 7, 9>>

\* candidatePool: for every existing name, in order, every delta, in order
CandidatePool(existing) ==
    LET nd == Len(candidateDeltas)
        Body(pool, p) ==
            Then(noteNameToMidi(existing[(p \div nd) + 1])[1] + candidateDeltas[(p % nd) + 1],
                 LAMBDA c :
            IF c >= 48 /\ c <= 84 /\ c \notin SeqRange(pool) THEN Append(pool, c) ELSE pool)
    IN  Loop(Body, <<>>, 0, Len(existing) * nd - 1)

\* The substitution loop; the count of a name is the number of events
\* carrying it at that moment
Rebalance(evs, pool, maxPer) ==
    LET Body(st, k) ==
            IF NameCount(st.evs, st.evs[k].noteName) > maxPer /\ Len(pool) > 0
            THEN [evs |-> [st.evs EXCEPT ![k].noteName =
                              midiToNoteName(pool[(st.poolIdx % Len(pool)) + 1])],
                  poolIdx |-> st.poolIdx + 1]
            ELSE st
    IN  Loop(Body, [evs |-> evs, poolIdx |-> 0], 1, Len(evs)).evs

BalanceHistogram(evs) ==
    Rebalance(evs, CandidatePool(ExistingNames(evs)), CeilDiv(18 * Len(evs), 100))

LeapCount(evs) ==
    Cardinality({ i \in 2..Len(evs) : Abs(Midi(evs[i]) - Midi(evs[i - 1])) >= 6 })

\* The loop that forces leaps: every 5th event from the 5th on, while the
\* leaps are too few; total is the event count
EnsureLeaps(evs, total) ==
    LET Body(cur, j) ==
            IF j >= 4 /\ (j - 4) % 5 = 0 /\ LeapCount(cur) < Max(3, RoundDiv(total, 20))
            THEN [cur EXCEPT ![j + 1].noteName =
                     midiToNoteName(Clamp(Midi(cur[j + 1]) + (IF j % 2 = 1 THEN 7 ELSE -7)))]
            ELSE cur
    IN  Loop(Body, evs, 0, Len(evs) - 1)

\* Micro timing jitter of every event but the first and the last two
Jitter(evs) ==
    [k \in 1..Len(evs) |->
        IF k - 1 >= 1 /\ k - 1 < Len(evs) - 2
        THEN [evs[k] EXCEPT !.time = Max(0, evs[k].time + (((k - 1) * 37) % 5) - 2)]
        ELSE evs[k]]

MotifLayer(evs, segs, t) ==
    Then(ApplyMotifs(SortByTime(evs), MotifSegments(segs, evs), motifPool(t)),
         LAMBDA shaped :
    Then(BalanceHistogram(shaped), LAMBDA balanced :
    Then(EnsureLeaps(balanced, Len(balanced)), LAMBDA leaped :
    SortByTime(Jitter(leaped)))))

Diversity ==
    /\ stage = "topped"
    /\ stage' = "motif"
    /\ \E t \in 1..NumTapes : events' = MotifLayer(events, segments, t)
    /\ UNCHANGED <<rawEvents, targetDurationMs, segments, codecVars, routeVars, applyVars>>

----------------------------------------------------------------------------
(* requestMusicalPlan: deterministic rhythmic regeneration (lines 829-907)   *)

regenScale == <<0, 2, 3, 5, 7, 9, 10>>

pickNote(base, octaveShift, step) ==
    Min(96, Max(36, base + octaveShift * 12
                    + regenScale[(((step % 7) + 7) % 7) + 1]))

\* seg.motionSpeed ?? Math.round(seg.intensity * 8) + 2
SegMotion(seg) ==
    IF seg.motionSpeed # <<>> THEN seg.motionSpeed[1]
    ELSE RoundDiv(8 * seg.intensity, 100) + 2

\* chooseDuration() with the draw d
chooseDuration(motion, d) ==
    LET baseOptions == IF motion >= 8 THEN <<125, 150, 187, 250>>
                       ELSE IF motion >= 6 THEN <<187, 250, 375, 500>>
                       ELSE IF motion >= 4 THEN <<375, 500, 750, 1000>>
                       ELSE IF motion >= 2 THEN <<750, 1000, 1500, 2000>>
                       ELSE <<1000, 1500, 2000, 2500>>
    IN  RoundDiv(Pick(baseOptions, d) * (800 + 4 * d), 1000)

RegenVelocity(tCursor, totalDur, motion) ==
    IF 100 * tCursor < 15 * totalDur THEN 60 + (motion % 5) * 4
    ELSE IF 100 * tCursor < 55 * totalDur THEN 72 + (motion % 6) * 5
    ELSE IF 100 * tCursor < 80 * totalDur THEN 90 + (motion % 4) * 5
    ELSE 70 + (motion % 5) * 4

\* The events of one segment: the loop over i < targetEvents, left when the
\* cursor has reached the end of the segment.  st is [evs, globalStep] and
\* so is the result.
RebuildSegment(seg, totalDur, t, st) ==
    Then(SegMotion(seg), LAMBDA motion :
    LET targetEvents == Max(2, RoundDiv((60 + 55 * motion) * (seg.endMs - seg.startMs),
                                        100000))
        octaveShift == IF motion >= 8 THEN 2 ELSE IF motion >= 6 THEN 1
                       ELSE IF motion <= 2 THEN -1 ELSE 0
        gapFactor == IF motion >= 8 THEN 35 ELSE IF motion >= 6 THEN 55
                     ELSE IF motion >= 4 THEN 80 ELSE 125
        Body(cur, i) ==
            LET note == pickNote(60 + (IF Contains(seg.mood, <<"p", "e", "a", "k">>) THEN 2 ELSE 0),
                                 octaveShift,
                                 cur.globalStep + i + (IF motion >= 7 THEN i ELSE 0))
            IN  Then(chooseDuration(motion, Draw(t, cur.globalStep + i)), LAMBDA dur :
                IF cur.tCursor >= seg.endMs THEN cur
                ELSE [evs |-> Append(cur.evs,
                         [noteName |-> midiToNoteName(note),
                          time |-> cur.tCursor
                                   + Min(120, (cur.globalStep * 17 + i * 31) % 90),
                          duration |-> Min(dur, seg.endMs - cur.tCursor + 200),
                          velocity |-> Num(RegenVelocity(cur.tCursor, totalDur, motion))]),
                      globalStep |-> cur.globalStep + 1,
                      tCursor |-> cur.tCursor + Max(120, RoundDiv(dur * gapFactor, 100))])
    IN  Then(Loop(Body, [evs |-> st.evs, globalStep |-> st.globalStep,
                         tCursor |-> seg.startMs], 0, targetEvents - 1),
             LAMBDA done :
        [evs |-> done.evs,
         globalStep |-> done.globalStep + (IF motion <= 3 THEN 2 ELSE 0)]))

Rebuild(segs, totalDur, t) ==
    Loop(LAMBDA st, k : RebuildSegment(segs[k], totalDur, t, st),
         [evs |-> <<>>, globalStep |-> 0], 1, Len(segs)).evs

SumDurations(evs) == SumSeq([i \in 1..Len(evs) |-> evs[i].duration])

Regeneration(evs, segs, target, t) ==
    LET uniquePitchCount == UniqueNames(evs)
        monotone == uniquePitchCount <= 4
                    /\ (UniqueDurations(evs) <= 2 \/ SumDurations(evs) > 800 * Len(evs))
        Replace(rebuilt) ==
            IF UniqueNames(rebuilt) > uniquePitchCount
               /\ 10 * Len(rebuilt) > 8 * Len(evs)
            THEN SortByTime(rebuilt)
            ELSE evs
    IN  IF monotone /\ Len(segs) > 0 THEN Replace(Rebuild(segs, target, t)) ELSE evs

Regenerate ==
    /\ stage = "motif"
    /\ stage' = "regen"
    /\ \E t \in 1..NumTapes : events' = Regeneration(events, segments, targetDurationMs, t)
    /\ UNCHANGED <<rawEvents, targetDurationMs, segments, codecVars, routeVars, applyVars>>

----------------------------------------------------------------------------
(* requestMusicalPlan: re-scale (lines 909-919) and scale to target          *)
(* precisely with the sustaining note (lines 921-942)                        *)

Rescale ==
    /\ stage = "regen"
    /\ stage' = "rescaled"
    /\ events' = ScaleTo(events, targetDurationMs, 120)
    /\ UNCHANGED <<rawEvents, targetDurationMs, segments, codecVars, routeVars, applyVars>>

SustainingNote(target) ==
    [noteName |-> <<"C", "5">>, time |-> Max(0, target - 1800), duration |-> 1800,
     velocity |-> Num(75)]

ScalePrecisely(evs, target) ==
    Then(ScaleTo(evs, target, 0), LAMBDA scaled :
    IF target > 0 /\ Len(evs) > 0 /\ 100 * EndOf(scaled) < 96 * target
    THEN Append(scaled, SustainingNote(target))
    ELSE scaled)

ScaleToTarget ==
    /\ stage = "rescaled"
    /\ stage' = "scaled"
    /\ events' = ScalePrecisely(events, targetDurationMs)
    /\ UNCHANGED <<rawEvents, targetDurationMs, segments, codecVars, routeVars, applyVars>>

----------------------------------------------------------------------------
(* requestMusicalPlan: density enforcement and register expansion            *)
(* (lines 944-1006)                                                          *)

\* The fillers of the seconds no event starts in; lastMidi is the pitch the
\* first filler steps from
DensityFillers(evs, seconds, lastMidi) ==
    LET Body(st, s) ==
            LET dir == IF s % 4 = 0 THEN 12 ELSE IF s % 3 = 0 THEN -12
                       ELSE IF s % 2 = 0 THEN 7 ELSE -5
                c0 == st.lastMidi + dir
                c1 == IF c0 > 84 THEN c0 - 12 ELSE c0
                cand == IF c1 < 48 THEN c1 + 12 ELSE c1
            IN  IF \E i \in 1..Len(evs) : FloorDiv(evs[i].time, 1000) = s
                THEN st
                ELSE [lastMidi |-> cand,
                      filler |-> Append(st.filler,
                         [noteName |-> midiToNoteName(cand),
                          time |-> s * 1000 + 40,
                          duration |-> IF s % 5 = 0 THEN 500 ELSE 250,
                          velocity |-> Num(68 + (s % 6) * 5)])]
    IN  Loop(Body, [lastMidi |-> lastMidi, filler |-> <<>>], 0, seconds - 1).filler

\* EnforceDensity without the fillers
EnforceDensity_Skipped(evs, target) == evs

EnforceDensity(evs, target) ==
    LET seconds == Max(1, FloorDiv(target, 1000))
    IN  Then(Midi(evs[1]), LAMBDA first :
        Then(DensityFillers(evs, seconds, IF first = 0 THEN 60 ELSE first), LAMBDA filler :
        IF Len(filler) > 0 THEN SortByTime(evs \o filler) ELSE evs))

\* The expansion loop: at most 8 events are moved by an octave
ExpandLoop(evs) ==
    LET Body(st, i) ==
            Then(Midi(st.evs[i + 1]), LAMBDA m :
            IF st.expanded >= 8 THEN st
            ELSE IF i % 3 = 1 /\ m + 12 <= 84
            THEN [evs |-> [st.evs EXCEPT ![i + 1].noteName = midiToNoteName(m + 12)],
                  expanded |-> st.expanded + 1]
            ELSE IF i % 5 = 2 /\ m - 12 >= 48
            THEN [evs |-> [st.evs EXCEPT ![i + 1].noteName = midiToNoteName(m - 12)],
                  expanded |-> st.expanded + 1]
            ELSE st)
    IN  Loop(Body, [evs |-> evs, expanded |-> 0], 0, Len(evs) - 1).evs

ExpandRegister(evs) ==
    Then({ Midi(evs[i]) : i \in 1..Len(evs) }, LAMBDA midis :
    IF SetMax(midis) - SetMin(midis) < 12 THEN ExpandLoop(evs) ELSE evs)

DensityAndRegister ==
    /\ stage = "scaled"
    /\ stage' = "dense"
    /\ events' = ExpandRegister(EnforceDensity(events, targetDurationMs))
    /\ UNCHANGED <<rawEvents, targetDurationMs, segments, codecVars, routeVars, applyVars>>

----------------------------------------------------------------------------
(* requestMusicalPlan: continuous coverage enforcement (lines 1008-1070)     *)

MAX_NEW == 120
canonicalDurationsDesc == <<2000, 1000, 500, 250, 125>>

\* choosePitch(anchorPrev, idx, anchorPrev, anchorNext); next is <<>> at the tail
choosePitch(anchor, idx, next) ==
    Then(Midi(anchor), LAMBDA a :
    LET n == IF next = <<>> THEN a ELSE Midi(next[1])
        avg == RoundDiv(2 * a + n, 3) + 2 * (idx % 4) - 3
    IN  midiToNoteName(Min(96, Max(36, avg))))

\* ensureGapFilled(start, end, anchorPrev, anchorNext): `added` after the
\* call.  Every turn of the while loop but the last advances the cursor by at
\* least 125 ms, which bounds the number of turns.
ensureGapFilled(start, end, anchorPrev, anchorNext, added) ==
    LET Body(st, turn) ==
            LET remaining == end - st.cursor
                fits == { k \in 1..Len(canonicalDurationsDesc) :
                            canonicalDurationsDesc[k] <= remaining }
                dur == canonicalDurationsDesc[SetMin(fits)]
            IN  IF st.left \/ ~(st.cursor < end - 1 /\ Len(st.added) < MAX_NEW)
                THEN [st EXCEPT !.left = TRUE]
                ELSE IF fits = {}
                THEN [st EXCEPT !.left = TRUE,
                                !.added = IF Len(st.added) > 0
                                          THEN [st.added EXCEPT
                                                   ![Len(st.added)].duration = @ + remaining]
                                          ELSE st.added]
                ELSE [cursor |-> st.cursor + dur,
                      localIdx |-> st.localIdx + 1,
                      left |-> FALSE,
                      added |-> Append(st.added,
                         [noteName |-> choosePitch(anchorPrev, st.localIdx, anchorNext),
                          time |-> st.cursor,
                          duration |-> dur,
                          velocity |-> VelShift(anchorPrev, ((st.localIdx % 3) - 1) * 7,
                                                45, 110)])]
    IN  Loop(Body, [cursor |-> start, localIdx |-> 0, left |-> FALSE, added |-> added],
             1, FloorDiv(end - start, 125) + 1).added

\* Fill inter-event gaps: the scan of the pairs (evs[i], evs[i+1])
FillInterEventGaps(evs) ==
    Loop(LAMBDA added, i :
            IF evs[i + 1].time > evs[i].time + evs[i].duration
            THEN ensureGapFilled(evs[i].time + evs[i].duration, evs[i + 1].time,
                                 evs[i], <<evs[i + 1]>>, added)
            ELSE added,
         <<>>, 1, Len(evs) - 1)

\* `added` at the end of the pass, for the start-ordered events evs
CoverageAdded(evs, targetEnd) ==
    LET lastEnd == EndOf(evs)
    IN  Then(FillInterEventGaps(evs), LAMBDA inter :
        IF targetEnd > lastEnd
        THEN ensureGapFilled(lastEnd, targetEnd, evs[Len(evs)], <<>>, inter)
        ELSE inter)

EnforceCoverage(evs, target) ==
    Then(SortByTime(evs), LAMBDA sorted :
    Then(CoverageAdded(sorted, target), LAMBDA added :
    IF Len(added) > 0 THEN SortByTime(sorted \o added) ELSE sorted))

Coverage ==
    /\ stage = "dense"
    /\ stage' = "covered"
    /\ events' = EnforceCoverage(events, targetDurationMs)
    /\ UNCHANGED <<rawEvents, targetDurationMs, segments, codecVars, routeVars, applyVars>>

----------------------------------------------------------------------------
(* requestMusicalPlan: public events (lines 1072-1092) and register-breadth  *)
(* injection (lines 1094-1137)                                               *)

toNoteType(ms) ==
    IF ms < 190 THEN "sixteenth"
    ELSE IF ms < 375 THEN "eighth"
    ELSE IF ms < 750 THEN "quarter"
    ELSE IF ms < 1500 THEN "half"
    ELSE "whole"

CanonicalMs(nt) ==
    CASE nt = "sixteenth" -> 125
      [] nt = "eighth" -> 250
      [] nt = "quarter" -> 500
      [] nt = "half" -> 1000
      [] OTHER -> 2000

\* The mapping with every start moved to the end of the event
publicEvents_StartsMoved(evs) ==
    [k \in 1..Len(evs) |->
        [noteName |-> evs[k].noteName,
         time |-> evs[k].time + evs[k].duration,
         duration |-> CanonicalMs(toNoteType(evs[k].duration)),
         noteType |-> toNoteType(evs[k].duration),
         velocity |-> evs[k].velocity]]

publicEvents(evs) ==
    [k \in 1..Len(evs) |->
        [noteName |-> evs[k].noteName,
         time |-> evs[k].time,
         duration |-> CanonicalMs(toNoteType(evs[k].duration)),
         noteType |-> toNoteType(evs[k].duration),
         velocity |-> evs[k].velocity]]

LowAddition(anchors, i) ==
    LET src == anchors[((i * 2) % Len(anchors)) + 1]
    IN  [noteName |-> midiToNoteName(Max(36, Min(55, Midi(src) - 24 + (i % 4) * 2))),
         time |-> src.time + 15,
         duration |-> 250,
         noteType |-> "eighth",
         velocity |-> VelShiftMin(src, 4, 100)]

HighAddition(anchors, i) ==
    LET src == anchors[((i * 3 + 1) % Len(anchors)) + 1]
    IN  [noteName |-> midiToNoteName(Min(96, Max(81, Midi(src) + 24 - (i % 3) * 3))),
         time |-> src.time + 30,
         duration |-> 125,
         noteType |-> "sixteenth",
         velocity |-> VelShiftMin(src, 6, 108)]

InjectBreadth(pub, target) ==
    LET needLow == Max(0, 4 - Cardinality({ k \in 1..Len(pub) : Midi(pub[k]) <= 55 }))
        needHigh == Max(0, 4 - Cardinality({ k \in 1..Len(pub) : Midi(pub[k]) >= 81 }))
    IN  Then(SortByTime(pub), LAMBDA anchors :
        Then([i \in 1..needLow |-> LowAddition(anchors, i - 1)]
             \o [i \in 1..needHigh |-> HighAddition(anchors, i - 1)],
             LAMBDA additions :
        IF target >= 5000 /\ Len(additions) > 0
        THEN SortByTime(pub \o additions)
        ELSE pub))

PublishAndReturn ==
    /\ stage = "covered"
    /\ stage' = "returned"
    /\ events' = InjectBreadth(publicEvents(events), targetDurationMs)
    /\ UNCHANGED <<rawEvents, targetDurationMs, segments, codecVars, routeVars, applyVars>>

----------------------------------------------------------------------------
(* route.ts: snapToScale, inferNoteType, fillGapsWithMedian                  *)

\* The first hit of the search at distance dist.. (direction -1 before +1)
RECURSIVE SnapSearch(_, _, _, _)
SnapSearch(midi, pcs, scalePcs, dist) ==
    IF dist > 6 THEN midi
    ELSE IF JsMod(pcs - dist + 12, 12) \in scalePcs THEN midi - dist
    ELSE IF JsMod(pcs + dist + 12, 12) \in scalePcs THEN midi + dist
    ELSE SnapSearch(midi, pcs, scalePcs, dist + 1)

\* The pitch returned as it came
snapToScale_Unsnapped(midi, scale) == midi

snapToScale(midi, scale) ==
    LET pcs == JsMod(JsMod(midi, 12) + 12, 12)
    IN  IF pcs \in scale.scalePcs THEN midi ELSE SnapSearch(midi, pcs, scale.scalePcs, 1)

inferNoteType(duration) ==
    IF duration < 375 THEN "eighth"
    ELSE IF duration < 750 THEN "quarter"
    ELSE IF duration < 1500 THEN "half"
    ELSE "whole"

\* Math.round((a + b) / 2) on two velocities
JsAvgRound(a, b) ==
    IF a.k = "num" /\ b.k = "num" THEN Num(RoundDiv(a.v + b.v, 2))
    ELSE IF a.k = "nan" \/ b.k = "nan" THEN NaN
    ELSE IF a.k = "num" THEN b
    ELSE IF b.k = "num" \/ a.k = b.k THEN a
    ELSE NaN

\* No filler for any pair
MedianFillers_None(sorted, scale) == <<>>

\* The fillers of the pairs (sorted[i], sorted[i+1]); scale is <<>> or <<ctx>>
MedianFillers(sorted, scale) ==
    LET Filler(cur, next, prevMidi, nextMidi, gapStart, gap) ==
            LET median == RoundDiv(prevMidi[1] + nextMidi[1], 2)
            IN  [noteName |-> midiToNoteNameRoute(
                                 IF scale # <<>> THEN snapToScale(median, scale[1])
                                 ELSE median),
                 time |-> gapStart,
                 duration |-> gap,
                 noteType |-> inferNoteType(gap),
                 velocity |-> JsAvgRound(cur.velocity, next.velocity)]
        Pair(acc, cur, next, prevMidi, nextMidi, gapStart) ==
            IF next.time - gapStart > 200 /\ prevMidi # <<>> /\ nextMidi # <<>>
            THEN Append(acc, Filler(cur, next, prevMidi, nextMidi, gapStart,
                                    next.time - gapStart))
            ELSE acc
        Body(acc, i) ==
            Pair(acc, sorted[i], sorted[i + 1],
                 noteNameToMidiLoose(sorted[i].noteName),
                 noteNameToMidiLoose(sorted[i + 1].noteName),
                 sorted[i].time + sorted[i].duration)
    IN  Loop(Body, <<>>, 1, Len(sorted) - 1)

fillGapsWithMedian(evs, scale) ==
    LET Fill(sorted) == SortByTime(sorted \o MedianFillers(sorted, scale))
    IN  IF Len(evs) < 2 THEN evs ELSE Fill(SortByTime(evs))

----------------------------------------------------------------------------
(* The requests the pipeline is explored on                                  *)

\* A well formed raw event of the collaborator
Raw(name, time, noteType, velocity) ==
    Obj(<<name>>, <<>>, Num(time), <<noteType>>, Undefined, Num(velocity))

\* two quarter notes one second apart
RawTwoQuarters ==
    << Raw(<<"C", "4">>, 0, "quarter", 80), Raw(<<"E", "4">>, 1000, "quarter", 80) >>

\* a four-note loop played twice
RawLoop ==
    [i \in 1..8 |->
        Raw((<< <<"C", "4">>, <<"E", "4">>, <<"G", "4">>, <<"C", "5">> >>)[((i - 1) % 4) + 1],
            (i - 1) * 500, "quarter", 80)]

\* long notes at the start, a long silence, one note at the end
RawSparse ==
    << Raw(<<"C", "3">>, 0, "whole", 70), Raw(<<"G", "3">>, 2000, "half", 74),
       Raw(<<"E", "5">>, 7400, "quarter", 96) >>

\* eighteen events of mixed pitch, length and loudness
RawVaried ==
    [i \in 1..18 |->
        Raw((<< <<"D", "4">>, <<"F", "#", "4">>, <<"A", "4">>, <<"B", "3">>, <<"E", "5">>, <<"G", "3">>, <<"C", "#", "5">> >>)[((i * 3) % 7) + 1],
            (i - 1) * 430 + (i % 3) * 35,
            (<<"eighth", "quarter", "sixteenth", "half", "eighth">>)[(i % 5) + 1],
            58 + (i % 6) * 9)]

\* twelve events 700 ms apart, every third one 60 or 120 ms late
RawStaggered ==
    [i \in 1..12 |->
        Raw((<< <<"D", "4">>, <<"F", "#", "4">>, <<"A", "4">>, <<"B", "3">>, <<"E", "5">>, <<"G", "3">>, <<"C", "#", "5">> >>)[((i * 3) % 7) + 1],
            (i - 1) * 700 + (i % 3) * 60,
            (<<"eighth", "quarter", "sixteenth", "half", "eighth">>)[(i % 5) + 1],
            58 + (i % 6) * 9)]

\* pitches below and above the working range
RawExtremes ==
    << Raw(<<"C", "0">>, 0, "quarter", 70), Raw(<<"G", "9">>, 400, "eighth", 90),
       Raw(<<"A", "0">>, 900, "half", 64), Raw(<<"C", "8">>, 1500, "quarter", 100) >>

\* two whole notes that start 100 ms apart
RawTwoWholes ==
    << Raw(<<"C", "4">>, 0, "whole", 80), Raw(<<"G", "4">>, 100, "whole", 80) >>

PlanRawInputs ==
    { <<>>, RawTwoQuarters, RawLoop, RawSparse, RawVaried, RawStaggered, RawExtremes,
      RawTwoWholes, <<RawNull>> }

PlanTargets == {2000, 8000}

\* A target the plan built from RawTwoWholes misses by more than 15 %
ShortTarget == 2500

\* The answers of the collaborator to the refinement call: a varied plan, the
\* plan that comes out too short again, and an answer that fails to normalise
RetryRawInputs == { RawVaried, RawTwoWholes, <<RawNull>> }

\* The requests examined: every answer at every target, and the short one
PlanRequests ==
    (PlanRawInputs \X PlanTargets) \cup { <<RawTwoWholes, ShortTarget>> }

\* requestVideoAnalysis, lines 1200-1212: the segments when the analysis
\* returned none
AnalysisFallbackSegments(total) ==
    [k \in 1..8 |->
        [startMs |-> RoundDiv((k - 1) * total, 8),
         endMs |-> RoundDiv(k * total, 8),
         intensity |-> 30 + 10 * (k - 1),
         mood |-> IF 3 * (k - 1) < 8 THEN <<"c", "a", "l", "m">>
                  ELSE IF 3 * (k - 1) < 16 THEN <<"b", "u", "i", "l", "d", "i", "n", "g">> ELSE <<"p", "e", "a", "k">>,
         motionSpeed |-> <<>>]]

\* requestVideoAnalysis, lines 1188-1198: three analysed segments covering
\* the clip
AnalysedSegments(total) ==
    << [startMs |-> 0, endMs |-> total \div 2, intensity |-> 20,
        mood |-> <<"t", "e", "n", "s", "e">>, motionSpeed |-> <<3>>],
       [startMs |-> total \div 2, endMs |-> (3 * total) \div 4, intensity |-> 90,
        mood |-> <<"e", "x", "p", "l", "o", "s", "i", "v", "e">>, motionSpeed |-> <<9>>],
       [startMs |-> (3 * total) \div 4, endMs |-> total, intensity |-> 40,
        mood |-> <<"r", "e", "s", "o", "l", "v", "e">>, motionSpeed |-> <<4>>] >>

----------------------------------------------------------------------------
(* route.ts: POST (lines 275-487)                                            *)

\* A judgement that asks for the retry whatever the plan looks like
PlanOutcome_AlwaysRetry(evs, segs, target) ==
    LET Filled(scale, filled) ==
            [scale |-> scale, filled |-> filled, end |-> EndOf(filled), retry |-> TRUE]
        Detected(scale) == Filled(scale, fillGapsWithMedian(evs, scale))
    IN  Detected(detectScale(evs, segs))

\* Lines 329-346 and 372-376: scale detection, gap fill and planEnd after a
\* call of requestMusicalPlan returned; after the first call the monotony and
\* duration heuristics decide on the single retry, which starts a second call
\* on a fresh answer of the collaborator.
PlanOutcome(evs, segs, target) ==
    LET Judged(scale, filled, end) ==
            LET uniqueNotes == UniqueNames(filled)
                uniformNoteType ==
                    \A k \in 1..Len(filled) : filled[k].noteType = filled[1].noteType
                tooShort == target # 0 /\ 100 * end < 85 * target
                repetitive == Len(filled) >= 8 /\ uniqueNotes <= 4 /\ uniformNoteType
            IN  [scale |-> scale, filled |-> filled, end |-> end,
                 retry |-> repetitive \/ tooShort]
        Filled(scale, filled) == Judged(scale, filled, EndOf(filled))
        Detected(scale) == Filled(scale, fillGapsWithMedian(evs, scale))
    IN  Detected(detectScale(evs, segs))

AfterPlan ==
    /\ stage = "returned"
    /\ \E out \in { PlanOutcome(events, segments, targetDuration) } :
           /\ detectedScale' = out.scale
           /\ events' = out.filled
           /\ planEnd' = out.end
           /\ IF attempt = 1 /\ out.retry
              THEN /\ stage' = "start"
                   /\ attempt' = 2
                   /\ rawEvents' \in RetryRawInputs
                   /\ UNCHANGED tempVideo
              ELSE /\ stage' = "filled"
                   /\ tempVideo' = "unlinking"
                   /\ UNCHANGED <<attempt, rawEvents>>
    /\ UNCHANGED <<targetDurationMs, segments, targetDuration, fallbackUsed, codecVars,
                   applyVars>>

\* An external call of the try block throws (upload, analysis or generation)
ExternalFailure ==
    /\ stage = "start"
    /\ stage' = "threw"
    /\ UNCHANGED <<rawEvents, targetDurationMs, segments, events, codecVars, routeVars, applyVars>>

ScaffoldRoots == <<"C", "D", "E", "F", "G", "A", "B">>
ScaffoldNoteTypes == <<"sixteenth", "eighth", "quarter", "half", "whole">>

\* Event i of the scaffold of the catch block (0-based i) on tape t
ScaffoldEvent(i, base, numEvents, root, t) ==
    LET octave == Pick(<<3, 4, 5>>, Draw(t, 4 * i + 3))
        noteType == Pick(ScaffoldNoteTypes, Draw(t, 4 * i + 4))
    IN  [noteName |-> <<root>> \o IntToStr(octave),
         time |-> RoundDiv(2 * i * base + numEvents * Draw(t, 4 * i + 5) - 50 * numEvents,
                           2 * numEvents),
         noteType |-> noteType,
         duration |-> NoteTypeMs(noteType),
         velocity |-> Num(60 + ((Draw(t, 4 * i + 6) * 40) \div 100))]

\* Lines 379-412: the catch block
\* A catch block that builds no event
Scaffold_Empty(base, t) == <<>>

\* Lines 384-404: the scaffold of the catch block on tape t
Scaffold(base, t) ==
    LET numEvents == 16 + ((Draw(t, 0) * 8) \div 100)
        root == Pick(ScaffoldRoots, Draw(t, 1))
    IN  [k \in 1..numEvents |-> ScaffoldEvent(k - 1, base, numEvents, root, t)]

\* Lines 379-412: the catch block
CatchFallback ==
    /\ stage = "threw"
    /\ stage' = "filled"
    /\ fallbackUsed' = TRUE
    /\ tempVideo' = "unlinking"
    /\ \E t \in 1..NumTapes :
          \E scaffold \in { Scaffold(IF targetDuration # 0 THEN targetDuration ELSE 8000, t) } :
             \E scale \in { detectScale(scaffold, segments) } :
                /\ planEnd' = EndOf(scaffold)
                /\ detectedScale' = scale
                /\ events' = fillGapsWithMedian(scaffold, scale)
    /\ UNCHANGED <<rawEvents, targetDurationMs, segments, targetDuration, attempt, codecVars, applyVars>>

WholeNoteAtEnd(target) ==
    [noteName |-> <<"C", "5">>, time |-> Max(0, target - 2000), noteType |-> "whole",
     duration |-> 2000, velocity |-> Num(80)]

\* Lines 418-438: scale the start times to the target, append a whole note
\* when the plan ends short
ScalePlanTimes(evs, target, end) ==
    IF target # 0 /\ end > 0
    THEN Then([k \in 1..Len(evs) |->
                 [evs[k] EXCEPT !.time = RoundDiv(evs[k].time * target, end)]],
              LAMBDA scaled :
         IF 100 * EndOf(scaled) < 92 * target
         THEN Append(scaled, WholeNoteAtEnd(target))
         ELSE scaled)
    ELSE evs

RouteScale ==
    /\ stage = "filled"
    /\ stage' = "responded"
    /\ events' = ScalePlanTimes(events, targetDuration, planEnd)
    /\ planEnd' = (IF targetDuration # 0 /\ planEnd > 0 THEN EndOf(events') ELSE planEnd)
    /\ UNCHANGED <<rawEvents, targetDurationMs, segments, targetDuration, detectedScale,
                   attempt, fallbackUsed, tempVideo, codecVars, applyVars>>

\* Rendering throws after the inner try (createMidiFile, synthesizePlanToWavBase64):
\* the root catch answers with status 500 (lines 484-487)
RenderFailure ==
    /\ stage = "filled"
    /\ stage' = "failed"
    /\ UNCHANGED <<rawEvents, targetDurationMs, segments, events, routeVars, codecVars,
                   applyVars>>

\* fs.unlink(tempVideoPath), started in the finally block and not awaited,
\* removes the file
UnlinkResolves ==
    /\ tempVideo = "unlinking"
    /\ tempVideo' = "deleted"
    /\ UNCHANGED <<planVars, targetDuration, detectedScale, planEnd, attempt, fallbackUsed,
                   codecVars, applyVars>>

\* fs.unlink rejects; .catch(()=>{}) swallows the error and the file stays
UnlinkRejects ==
    /\ tempVideo = "unlinking"
    /\ tempVideo' = "left"
    /\ UNCHANGED <<planVars, targetDuration, detectedScale, planEnd, attempt, fallbackUsed,
                   codecVars, applyVars>>

----------------------------------------------------------------------------
(* Spec: one sonification request from the first call of requestMusicalPlan  *)
(* to the plan of the response                                               *)

Init ==
    /\ stage = "start"
    /\ attempt = 1
    /\ \E req \in PlanRequests :
           /\ rawEvents = req[1]
           /\ targetDuration = req[2]
    /\ targetDurationMs = targetDuration
    /\ segments \in { AnalysisFallbackSegments(targetDuration),
                      AnalysedSegments(targetDuration) }
    /\ events = <<>>
    /\ detectedScale = <<>>
    /\ planEnd = 0
    /\ fallbackUsed = FALSE
    /\ tempVideo = "written"
    /\ CodecIdle
    /\ ApplyIdle

Next ==
    \/ Normalize
    \/ ExternalFailure
    \/ EarlyMonotonyGuard
    \/ Variation
    \/ Enrich
    \/ PatternBreaker
    \/ EnsureMinEvents
    \/ Diversity
    \/ Regenerate
    \/ Rescale
    \/ ScaleToTarget
    \/ DensityAndRegister
    \/ Coverage
    \/ PublishAndReturn
    \/ AfterPlan
    \/ CatchFallback
    \/ RouteScale
    \/ RenderFailure
    \/ UnlinkResolves
    \/ UnlinkRejects

Spec == Init /\ [][Next]_vars

----------------------------------------------------------------------------
(* Properties of the finished plan                                           *)

\* The number of events sounding at instant t (start <= t < start + duration)
Sounding(evs, t) ==
    Cardinality({ i \in 1..Len(evs) : evs[i].time <= t /\ t < evs[i].time + evs[i].duration })

\* C3: at no instant do more than 2 events of the finished plan sound at once.
\* The number of sounding events only rises at an event's start, so it is
\* enough to look at the starts.
C3_AtMostTwoSounding ==
    stage = "returned" =>
        \A i \in 1..Len(events) : Sounding(events, events[i].time) <= 2

\* C4: in the finished plan every rolling 1-second window that fits into the
\* target duration contains an onset.  Times are whole milliseconds, so the
\* windows to look at start at 0 and one millisecond after each onset.
HasOnsetIn(evs, lo, hi) == \E i \in 1..Len(evs) : evs[i].time >= lo /\ evs[i].time < hi

EveryRollingWindowHasOnset(evs, D) ==
    \A t \in {0} \cup { evs[i].time + 1 : i \in 1..Len(evs) } :
        (t >= 0 /\ t <= D - 1000) => HasOnsetIn(evs, t, t + 1000)

C5_EndWithinFourPercent ==
    (stage = "responded" /\ targetDuration > 0) =>
        100 * Abs(EndOf(events) - targetDuration) <= 4 * targetDuration

\* An instant at which no event sounds begins at 0 or at the end of an event;
\* the plan is gapless up to D when every event end before D is covered.
NoSilenceAfterEvents(evs, D) ==
    \A i \in 1..Len(evs) :
        LET t == evs[i].time + evs[i].duration
        IN  t < D => Sounding(evs, t) >= 1

\* C6: after coverage enforcement and every later step the plan has no silent
\* interval between the end of an event and the target duration.
C6_NoSilentInterval ==
    stage \in {"covered", "returned", "filled", "responded"} =>
        NoSilenceAfterEvents(events, targetDuration)

SilentCanonicalGaps(evs) ==
    { i \in 1..(Len(evs) - 1) :
        LET gapStart == evs[i].time + evs[i].duration
            gapEnd == evs[i + 1].time
        IN  /\ gapEnd - gapStart \in CanonicalDurations
            /\ \A k \in 1..Len(evs) :
                  evs[k].time + evs[k].duration <= gapStart \/ evs[k].time >= gapEnd }

OneExactFiller(before, after, i) ==
    LET gapStart == before[i].time + before[i].duration
        gapEnd == before[i + 1].time
        inside == { k \in 1..Len(after) : after[k].time >= gapStart /\ after[k].time < gapEnd }
    IN  /\ Cardinality(inside) = 1
        /\ \A k \in inside : after[k].time = gapStart
                              /\ after[k].time + after[k].duration = gapEnd

C7_OneFillerPerCanonicalGap ==
    [][(stage = "dense" /\ stage' = "covered"
        /\ Len(events') - Len(events) < MAX_NEW) =>
          \A i \in SilentCanonicalGaps(SortByTime(events)) :
              OneExactFiller(SortByTime(events), events', i)]_vars

----------------------------------------------------------------------------
(* C11: the detected scale is the best scoring one                           *)

\* 20 * (in-scale events - 0.35 * other events) of the scale (r, mode), by
\* counting the events
CountedScore20(pcs, r, mode) ==
    LET steps == IF mode = "major" THEN {0, 2, 4, 5, 7, 9, 11} ELSE {0, 2, 3, 5, 7, 8, 10}
        inside == Cardinality({ i \in 1..Len(pcs) : \E s \in steps : pcs[i] = (s + r) % 12 })
    IN  20 * inside - 7 * (Len(pcs) - inside)

\* the highest score over the 24 scales
TopScore20(pcs) ==
    SetMax({ CountedScore20(pcs, r, mode) : r \in 0..11, mode \in {"major", "minor"} })

\* lowest root among the best scoring scales, major before minor
ArgMaxScale(pcs) ==
    LET Lowest(top) ==
            LET r == SetMin({ q \in 0..11 : \E mode \in {"major", "minor"} :
                                 CountedScore20(pcs, q, mode) = top })
            IN  [rootPc |-> r,
                 mode |-> IF CountedScore20(pcs, r, "major") = top THEN "major" ELSE "minor"]
    IN  Lowest(TopScore20(pcs))

OtherMode(mode) == IF mode = "major" THEN "minor" ELSE "major"

\* the mood rule on the chosen scale
MoodRule(pcs, chosen, positive, negative) ==
    LET wanted == IF positive /\ ~negative THEN "major"
                  ELSE IF negative /\ ~positive THEN "minor"
                  ELSE chosen.mode
    IN  IF wanted # chosen.mode
           /\ CountedScore20(pcs, chosen.rootPc, wanted)
                 >= CountedScore20(pcs, chosen.rootPc, chosen.mode) - 20
        THEN [chosen EXCEPT !.mode = wanted]
        ELSE chosen

ExpectedScale(pcs, moodStr) ==
    MoodRule(pcs, ArgMaxScale(pcs), TestAny(RoutePositiveStems, moodStr),
             TestAny(RouteNegativeStems, moodStr))

\* C11: detectScale returns the scale of maximal score, a tie going to the
\* lower root and then to major, except that a positive-only mood replaces a
\* chosen minor by the major of the same root exactly when that major scores
\* within 1 point, and a negative-only mood replaces major by minor likewise.
C11_BestScoreAndMoodRule ==
    (stage = "scale-detected" /\ detectedScale # <<>>) =>
        \E want \in { ExpectedScale(ParsedPcs(events), RouteMoodStr(segments)) } :
            /\ detectedScale[1].rootPc = want.rootPc
            /\ detectedScale[1].mode = want.mode
            /\ detectedScale[1].scalePcs =
                  SeqRange(IF want.mode = "major" THEN majorScale(want.rootPc)
                           ELSE minorScale(want.rootPc))

\* C11 witness: a black key among the events moved the root away from C, and
\* under a negative-only mood the best scoring major was replaced by the
\* minor of the same root
C11_Witness ==
    /\ stage = "scale-detected"
    /\ detectedScale # <<>>
    /\ NegativeOnlyMood(segments)
    /\ detectedScale[1].mode = "minor"
    /\ detectedScale[1].rootPc # 0
    /\ ArgMaxScale(ParsedPcs(events)).mode = "major"
    /\ ArgMaxScale(ParsedPcs(events)).rootPc = detectedScale[1].rootPc

----------------------------------------------------------------------------
(* SpecSnap: snapToScale on the contexts detectScale produces                *)

\* the pitches snapped are -SnapBelow..MaxSnapPitch
SnapBelow == 14
MaxSnapPitch == 134

\* the seven degrees of the major scale on root pitch class r, as events
ScaleRun(r) ==
    [i \in 1..7 |-> [noteName |-> midiToNoteNameRoute(60 + r + MajorIntervals[i])]]

SnapInit ==
    /\ stage = "scale-input"
    /\ events \in { ScaleRun(r) : r \in 0..11 }
                    \cup { <<[noteName |-> <<"F", "#", "4">>]>>, <<[noteName |-> <<"B", "b", "3">>],
                                                        [noteName |-> <<"D", "b", "4">>]>> }
    /\ segments \in { <<>>, <<MoodSeg(<<"T", "e", "n", "s", "e">>)>> }
    /\ rawEvents = <<>>
    /\ targetDurationMs = 0
    /\ CodecIdle
    /\ ApplyIdle
    /\ RouteIdle

\* snapToScale(p, detectedScale) for a pitch p
SnapPitch ==
    /\ stage = "scale-detected"
    /\ detectedScale # <<>>
    /\ fn = "none"
    /\ \E p \in (0 - SnapBelow)..MaxSnapPitch :
          /\ fn' = "snapToScale"
          /\ arg' = p
          /\ result' = snapToScale(p, detectedScale[1])
    /\ UNCHANGED <<planVars, routeVars, codecVars>>

SnapNext ==
    \/ DetectScaleOnly
    \/ SnapPitch

SpecSnap == SnapInit /\ [][SnapNext]_vars

\* the pitch class of pitch p is in the detected scale
InDetectedScale(p) == (p % 12) \in detectedScale[1].scalePcs

\* C12: snapToScale returns p when p's pitch class is in the scale, and
\* otherwise p + d with |d| the smallest distance in 1..6 at which a pitch
\* class of the scale exists; the result's pitch class is in the scale and
\* snapping the result again returns it unchanged.
C12_SnapNearestInScale ==
    fn = "snapToScale" =>
        /\ InDetectedScale(arg) => result = arg
        /\ ~InDetectedScale(arg) =>
              \E d \in 1..6 :
                  /\ result \in {arg - d, arg + d}
                  /\ \A e \in 1..(d - 1) :
                        ~InDetectedScale(arg - e) /\ ~InDetectedScale(arg + e)
        /\ InDetectedScale(result)
        /\ snapToScale(result, detectedScale[1]) = result

\* C12 witness: under a detected minor scale a pitch below 0 outside the
\* scale was moved down by one semitone
C12_Witness ==
    /\ fn = "snapToScale"
    /\ arg < 0
    /\ ~InDetectedScale(arg)
    /\ result = arg - 1
    /\ detectedScale[1].mode = "minor"

----------------------------------------------------------------------------
(* C13: the refinement retry                                                 *)

\* at least 8 events, at most 4 distinct note names, one single note type
RepetitivePlan(evs) ==
    /\ Len(evs) >= 8
    /\ Cardinality({ evs[k].noteName : k \in 1..Len(evs) }) <= 4
    /\ Cardinality({ evs[k].noteType : k \in 1..Len(evs) }) = 1

\* the plan ends below 85% of the target
ShortPlan(end, target) == target # 0 /\ 100 * end < 85 * target

\* C13: a call of requestMusicalPlan after the first one starts only when the
\* first call has returned a plan that is repetitive or too short, it is the
\* second call of the request, and no call starts after the second one
\* returned: the request makes at most two calls.
C13_RetryAtMostOnce ==
    [][ /\ attempt' \in {attempt, 2}
        /\ attempt \in {1, 2}
        /\ (stage' = "start" /\ stage # "start") =>
              /\ stage = "returned"
              /\ attempt = 1
              /\ attempt' = 2
              /\ RepetitivePlan(events') \/ ShortPlan(planEnd', targetDuration)
        /\ attempt' # attempt => stage' = "start" /\ stage = "returned"
      ]_vars

\* C13 witness: the second call has returned a plan that is too short again
\* and the request went on with it, without a third call
C13_Witness ==
    /\ attempt = 2
    /\ stage = "filled"
    /\ ~fallbackUsed
    /\ rawEvents = RawTwoWholes
    /\ ShortPlan(planEnd, targetDuration)

----------------------------------------------------------------------------
(* C14: the fallback scaffold                                                *)

----------------------------------------------------------------------------
(* C15: the temporary video file                                             *)

\* C15: when the request completes, with a response or with status 500 after
\* a rendering failure, the temporary file has been deleted.
C15_TempFileDeleted ==
    stage \in {"responded", "failed"} => tempVideo = "deleted"

\* the deletion has at least been started on every exit path
C15_UnlinkStarted ==
    stage \in {"filled", "responded", "failed"} => tempVideo \in {"unlinking", "deleted", "left"}

----------------------------------------------------------------------------
(* C16: the order of the plan of the response                                *)

\* the pitch the response's renderer and the plan helpers read from a name
PitchOf(e) == noteNameToMidiLoose(e.noteName)[1]

\* ordered by start time
OrderedByStart(evs) ==
    \A i \in 1..(Len(evs) - 1) : evs[i].time <= evs[i + 1].time

\* events of equal start are in ascending pitch
TiesByAscendingPitch(evs) ==
    \A i \in 1..(Len(evs) - 1) :
        evs[i].time = evs[i + 1].time => PitchOf(evs[i]) <= PitchOf(evs[i + 1])

\* C16: the plan of the response is ordered by start time, and events of
\* equal start time are ordered by ascending pitch.
C16_OrderedByStartThenPitch ==
    stage = "responded" => OrderedByStart(events) /\ TiesByAscendingPitch(events)

\* the part of C16 about start times alone
C16_OrderedByStartOnly ==
    stage = "responded" => OrderedByStart(events)

----------------------------------------------------------------------------
(* C17: the Temporal Scaler applied twice                                    *)

\* the first n events of a and b have the same starts and durations
SameTiming(a, b, n) ==
    \A k \in 1..n : a[k].time = b[k].time /\ a[k].duration = b[k].duration

\* C17: the final scaling pass ("Scale to target precisely") runs on the plan
\* the re-scale pass has just scaled to the same target, and changes no
\* event's start and no event's duration.
C17_SecondScalingChangesNothing ==
    [][ (stage = "rescaled" /\ stage' = "scaled" /\ targetDurationMs > 0) =>
            SameTiming(events, events', Len(events)) ]_vars

----------------------------------------------------------------------------
(* C18: the working range of the pitches                                     *)

\* the pitches of the events; a name that does not parse counts as -1
PitchesOf(evs) ==
    { IF noteNameToMidi(evs[k].noteName) = <<>> THEN 0 - 1
      ELSE noteNameToMidi(evs[k].noteName)[1] : k \in 1..Len(evs) }

\* C18: every event of the plan requestMusicalPlan returns has a pitch in
\* the working range 36..96.
C18_PitchInWorkingRange ==
    stage = "returned" => PitchesOf(events) \subseteq 36..96

\* C18 witness: the collaborator's pitches lay outside the range (12, 21, 108
\* and 127) and the returned plan holds the lowest pitch of the range
C18_Witness ==
    /\ stage = "returned"
    /\ rawEvents = RawExtremes
    /\ 36 \in PitchesOf(events)

----------------------------------------------------------------------------
(* requestVideoAnalysis: segment normalisation (lines 1186-1235)             *)

\* A segment of the service's answer: startMs and endMs are <<>> (not a
\* number) or <<h>>, a time in half milliseconds; intensity is <<>> or a
\* percentage; motion_speed is <<>> or an integer; mood is <<>> or a text
RawSeg(startH, endH, intensity, mood, speed) ==
    [startMs |-> startH, endMs |-> endH, intensity |-> intensity, mood |-> mood,
     motion_speed |-> speed]

\* the filter of line 1189
SegmentKept(s) ==
    s.startMs # <<>> /\ s.endMs # <<>> /\ s.endMs[1] > s.startMs[1]

\* Number(s.intensity) || 0.5, as a percentage
SegIntensityOrHalf(s) ==
    IF s.intensity = <<>> \/ s.intensity = <<0>> THEN 50 ELSE s.intensity[1]

\* the map of lines 1190-1197
MapSegment(s) ==
    [startMs |-> Max(0, RoundDiv(s.startMs[1], 2)),
     endMs |-> Max(1, RoundDiv(s.endMs[1], 2)),
     intensity |-> Min(100, Max(0, SegIntensityOrHalf(s))),
     mood |-> IF s.mood = <<>> THEN <<"n", "e", "u", "t", "r", "a", "l">>
              ELSE SubSeq(s.mood, 1, Min(24, Len(s.mood))),
     motionSpeed |->
        << Min(10, Max(1, IF s.motion_speed = <<>> \/ s.motion_speed = <<0>>
                          THEN RoundDiv(8 * SegIntensityOrHalf(s), 100) + 1
                          ELSE s.motion_speed[1])) >>]

SortByStart(segs) == SortByKey(segs, [i \in 1..Len(segs) |-> segs[i].startMs])

\* Merge / normalize overlaps & gaps (lines 1214-1227): iteration i changes
\* segments[i].endMs only
MergeSegments(segs) ==
    [i \in 1..Len(segs) |->
        IF i = Len(segs) THEN segs[i]
        ELSE IF segs[i].endMs > segs[i + 1].startMs
        THEN (IF segs[i].endMs - segs[i + 1].startMs < 400
              THEN [segs[i] EXCEPT !.endMs = segs[i + 1].startMs]
              ELSE segs[i])
        ELSE IF segs[i].endMs < segs[i + 1].startMs
                /\ segs[i + 1].startMs - segs[i].endMs < 600
        THEN [segs[i] EXCEPT !.endMs = segs[i + 1].startMs]
        ELSE segs[i]]

\* lines 1229-1232: the first start and the last end
AnchorEnds(segs, durationMs) ==
    LET Last(first) ==
            IF 100 * first[Len(first)].endMs < 97 * durationMs
            THEN [first EXCEPT ![Len(first)].endMs = durationMs]
            ELSE first
    IN  Last([segs EXCEPT ![1].startMs = 0])

\* requestVideoAnalysis on the parsed answer: { durationMs, segments }
AnalyseVideo(rawSegs, target) ==
    LET Anchored(merged) ==
            LET durationMs == IF target # 0 THEN target
                              ELSE SetMax({ merged[i].endMs : i \in 1..Len(merged) } \cup {0})
            IN  [durationMs |-> durationMs, segments |-> AnchorEnds(merged, durationMs)]
        Merged(segs) == Anchored(MergeSegments(SortByStart(segs)))
        OrFallback(segs) ==
            IF Len(segs) = 0
            THEN Merged(AnalysisFallbackSegments(IF target # 0 THEN target ELSE 8000))
            ELSE Merged(segs)
        Mapped(kept) == OrFallback(SortByStart([i \in 1..Len(kept) |-> MapSegment(kept[i])]))
    IN  Mapped(SelectSeq(rawSegs, SegmentKept))

----------------------------------------------------------------------------
(* SpecAnalysis: requestVideoAnalysis on every list of at most               *)
(* MaxRawSegments segments of the service                                    *)

MaxRawSegments == 3

\* segments of an 8 s clip: two halves, a late start, small and large
\* overlaps and gaps, an end short of the clip, times that are not whole
\* milliseconds, a start that is no number
RawSegChoices ==
    { RawSeg(<<0>>, <<8000>>, <<20>>, <<"c", "a", "l", "m">>, <<3>>),
      RawSeg(<<8000>>, <<16000>>, <<90>>, <<"e", "x", "p", "l", "o", "s", "i", "v", "e">>, <<9>>),
      RawSeg(<<200>>, <<8000>>, <<>>, <<>>, <<>>),
      RawSeg(<<7400>>, <<16000>>, <<60>>, <<"t", "e", "n", "s", "e">>, <<>>),
      RawSeg(<<6000>>, <<15800>>, <<0>>, <<"b", "u", "i", "l", "d", "i", "n", "g">>, <<0>>),
      RawSeg(<<9000>>, <<15600>>, <<140>>, <<"r", "e", "s", "o", "l", "v", "e">>, <<14>>),
      RawSeg(<<10000>>, <<12000>>, <<40>>, <<"c", "a", "l", "m">>, <<4>>),
      RawSeg(<<8003>>, <<8004>>, <<50>>, <<"f", "l", "a", "s", "h">>, <<5>>),
      RawSeg(<<>>, <<16000>>, <<50>>, <<"p", "e", "a", "k">>, <<5>>) }

AnalysisTargets == {0, 8000}

AnalysisInit ==
    /\ fn = "requestVideoAnalysis"
    /\ arg \in [segments : SeqsUpTo(RawSegChoices, MaxRawSegments), target : AnalysisTargets]
    /\ result = <<>>
    /\ PlanIdle
    /\ RouteIdle
    /\ CodecIdle

AnalyseOnly ==
    /\ fn = "requestVideoAnalysis"
    /\ result = <<>>
    /\ result' = <<AnalyseVideo(arg.segments, arg.target)>>
    /\ UNCHANGED <<fn, arg, planVars, routeVars, codecVars>>

SpecAnalysis == AnalysisInit /\ [][AnalyseOnly]_vars

\* C19: in the list requestVideoAnalysis returns every segment has
\* startMs < endMs, each segment ends where the next one starts, the first
\* starts at 0 and the last ends at the reported durationMs.
C19_SegmentsCoverClip ==
    (fn = "requestVideoAnalysis" /\ result # <<>>) =>
        LET segs == result[1].segments
        IN  /\ \A i \in 1..Len(segs) : segs[i].startMs < segs[i].endMs
            /\ \A i \in 1..(Len(segs) - 1) : segs[i].endMs = segs[i + 1].startMs
            /\ segs[1].startMs = 0
            /\ segs[Len(segs)].endMs = result[1].durationMs

\* the parts of C19 that hold for every answer: a non-empty list in start
\* order whose first segment starts at 0
C19_StartsAtZeroInOrder ==
    (fn = "requestVideoAnalysis" /\ result # <<>>) =>
        LET segs == result[1].segments
        IN  /\ Len(segs) >= 1
            /\ segs[1].startMs = 0
            /\ \A i \in 1..(Len(segs) - 1) : segs[i].startMs <= segs[i + 1].startMs

----------------------------------------------------------------------------
(* SpecWav: the buffer synthesizePlanToWavBase64 builds (route.ts 193-272)   *)

\* JavaScript numbers are IEEE 754 doubles. A non-negative double is kept as
\* [m |-> digits, e |-> k], the value m * 2^k with m a list of binary digits,
\* least significant first, and the empty list for 0.

\* the binary digits of the natural number n
RECURSIVE ToBits(_)
ToBits(n) == IF n = 0 THEN <<>> ELSE <<n % 2>> \o ToBits(n \div 2)

\* the natural number of a list of binary digits
FromBits(b) == Loop(LAMBDA acc, k : 2 * acc + b[Len(b) + 1 - k], 0, 1, Len(b))

\* the digits without leading zeros
StripZeros(b) == SubSeq(b, 1, SetMax({0} \cup { i \in 1..Len(b) : b[i] = 1 }))

\* the digits of the number plus one
IncBits(b) ==
    LET To(z) == [i \in 1..Max(z, Len(b)) |->
                     IF i < z THEN 0 ELSE IF i = z THEN 1 ELSE b[i]]
    IN  To(SetMin({Len(b) + 1} \cup { i \in 1..Len(b) : b[i] = 0 }))

\* quotient digits and remainder of the long division by the natural d,
\* from the most significant digit down
DivBits(b, d) ==
    LET Digit(s, k) ==
            LET Cur(c) == [q |-> <<IF c >= d THEN 1 ELSE 0>> \o s.q,
                           r |-> IF c >= d THEN c - d ELSE c]
            IN  Cur(2 * s.r + b[Len(b) + 1 - k])
    IN  Loop(Digit, [q |-> <<>>, r |-> 0], 1, Len(b))

\* the digits of the number times the natural c
MulBits(b, c) ==
    LET Digit(s, i) ==
            LET Acc(a) == [out |-> Append(s.out, a % 2), carry |-> a \div 2]
            IN  Acc(s.carry + b[i] * c)
        Done(s) == s.out \o ToBits(s.carry)
    IN  Done(Loop(Digit, [out |-> <<>>, carry |-> 0], 1, Len(b)))

\* the significant binary digits of a double
MantissaBits == 53

\* Rounding of the exact value m * 2^e (plus a positive rest below 2^e when
\* sticky) to a double: to the nearest, a tie to the even mantissa
RoundToDouble(m, e, sticky) ==
    LET Drop(d) ==
            IF d <= 0 THEN [m |-> m, e |-> e]
            ELSE LET kept == SubSeq(m, d + 1, Len(m))
                     rest == sticky \/ \E i \in 1..(d - 1) : m[i] = 1
                     up == m[d] = 1 /\ (rest \/ kept[1] = 1)
                 IN  [m |-> IF up THEN IncBits(kept) ELSE kept, e |-> e + d]
    IN  Drop(Len(m) - MantissaBits)

\* binary digits after the point to which a quotient is computed before it is
\* rounded: more than a double keeps for any quotient of 1/1000 or more
DivScale == 64

\* x / d in double arithmetic, for naturals x and d
DoubleDiv(x, d) ==
    LET Rounded(qr) == RoundToDouble(StripZeros(qr.q), 0 - DivScale, qr.r # 0)
    IN  Rounded(DivBits([i \in 1..DivScale |-> 0] \o ToBits(x), d))

\* y * c in double arithmetic, for a double y and a natural c
DoubleMul(y, c) == RoundToDouble(StripZeros(MulBits(y.m, c)), y.e, FALSE)

\* Math.ceil of a double y, 0 <= y < 2^31
DoubleCeil(y) ==
    IF y.e >= 0 THEN FromBits([i \in 1..y.e |-> 0] \o y.m)
    ELSE LET f == 0 - y.e
         IN  IF \E i \in 1..Min(f, Len(y.m)) : y.m[i] = 1
             THEN FromBits(SubSeq(y.m, f + 1, Len(y.m))) + 1
             ELSE FromBits(SubSeq(y.m, f + 1, Len(y.m)))

\* Line 194
sampleRate == 44100

\* Line 199: Math.max(1, Math.ceil((endMs / 1000) * sampleRate))
totalSamples(endMs) ==
    Then(DoubleCeil(DoubleMul(DoubleDiv(endMs, 1000), sampleRate)),
         LAMBDA n : Max(1, n))

\* s.charCodeAt(i) for the characters the header is written with
CharCodeAt(c) ==
    CASE c = "R" -> 82 [] c = "I" -> 73 [] c = "F" -> 70 [] c = "W" -> 87
      [] c = "A" -> 65 [] c = "V" -> 86 [] c = "E" -> 69 [] c = "f" -> 102
      [] c = "m" -> 109 [] c = "t" -> 116 [] c = " " -> 32 [] c = "d" -> 100
      [] c = "a" -> 97

\* Lines 249-251: the bytes writeString stores
writeString(s) == [i \in 1..Len(s) |-> CharCodeAt(s[i])]

\* view.setUint16 / view.setUint32 (value, littleEndian = true): the n low
\* bytes of v, lowest first
LittleEndian(v, n) == [i \in 1..n |-> (v \div (256 ^ (i - 1))) % 256]

\* the view after the bytes were stored from the 0-based offset on
SetBytes(view, offset, bytes) ==
    [i \in 1..Len(view) |->
        IF i > offset /\ i <= offset + Len(bytes) THEN bytes[i - offset] ELSE view[i]]

RECURSIVE SetAll(_, _)
SetAll(view, writes) ==
    IF writes = <<>> THEN view
    ELSE SetAll(SetBytes(view, writes[1][1], writes[1][2]), Tail(writes))

\* Lines 252-264: the 44 header bytes of a buffer of n samples per channel
WavHeader(n) ==
    SetAll([i \in 1..44 |-> 0],
           << <<0, writeString(<<"R", "I", "F", "F">>)>>,
              <<4, LittleEndian(36 + n * 4, 4)>>,
              <<8, writeString(<<"W", "A", "V", "E">>)>>,
              <<12, writeString(<<"f", "m", "t", " ">>)>>,
              <<16, LittleEndian(16, 4)>>,
              <<20, LittleEndian(1, 2)>>,
              <<22, LittleEndian(2, 2)>>,
              <<24, LittleEndian(sampleRate, 4)>>,
              <<28, LittleEndian(sampleRate * 4, 4)>>,
              <<32, LittleEndian(4, 2)>>,
              <<34, LittleEndian(16, 2)>>,
              <<36, writeString(<<"d", "a", "t", "a">>)>>,
              <<40, LittleEndian(n * 4, 4)>> >>)

\* Lines 193-272: length and header of the buffer built for a plan and a
\* target (0 when there is none); the samples after the header are left out
synthesizePlanToWavBase64(evs, target) ==
    LET Sized(n) == [totalSamples |-> n,
                     byteLength |-> 44 + n * 4,
                     header |-> WavHeader(n)]
    IN  Sized(totalSamples(Max(target, EndOf(evs))))

\* plans of at most MaxWavEvents events
MaxWavEvents == 2

\* the internal events the plans are made of
WavEventChoices ==
    { [note |-> 60, time |-> 0, duration |-> 500, velocity |-> 80],
      [note |-> 64, time |-> 50, duration |-> 20, velocity |-> 70],
      [note |-> 67, time |-> 1000, duration |-> 1200, velocity |-> 90],
      [note |-> 72, time |-> 2000, duration |-> 1000, velocity |-> 100] }

\* the targets: none, and lengths from 60 ms to 8 s
WavTargets == {0, 60, 1000, 1100, 2450, 8000}

WavInit ==
    /\ fn = "synthesizePlanToWavBase64"
    /\ arg \in [events : SeqsUpTo(WavEventChoices, MaxWavEvents), target : WavTargets]
    /\ result = <<>>
    /\ PlanIdle
    /\ RouteIdle
    /\ CodecIdle

SynthesizeOnly ==
    /\ fn = "synthesizePlanToWavBase64"
    /\ result = <<>>
    /\ result' = <<synthesizePlanToWavBase64(arg.events, arg.target)>>
    /\ UNCHANGED <<fn, arg, planVars, routeVars, codecVars>>

SpecWav == WavInit /\ [][SynthesizeOnly]_vars

\* the string of n characters at the 0-based offset of the header
StringAt(header, offset, n) == SubSeq(header, offset + 1, offset + n)

\* the little-endian 32-bit number at the 0-based offset of the header
Uint32At(header, offset) ==
    header[offset + 1] + 256 * header[offset + 2]
        + 65536 * header[offset + 3] + 16777216 * header[offset + 4]

\* the end in ms of the audio asked for: the larger of target and latest end
WavEndMs == Max(arg.target, EndOf(arg.events))

\* the layout of the claim for a buffer of n samples per channel
WavLayout(w, n) ==
    /\ w.byteLength = 44 + 4 * n
    /\ StringAt(w.header, 0, 4) = writeString(<<"R", "I", "F", "F">>)
    /\ StringAt(w.header, 8, 4) = writeString(<<"W", "A", "V", "E">>)
    /\ Uint32At(w.header, 4) = 36 + 4 * n
    /\ Uint32At(w.header, 40) = 4 * n

\* C20: for any plan and optional target the WAV buffer has length 44 + 4*N
\* bytes, carries "RIFF" at offset 0 and "WAVE" at offset 8, declares the RIFF
\* size 36 + 4*N at offset 4 and the data length 4*N at offset 40, where
\* N = max(1, ceil(endMs * 44100 / 1000)) and endMs is the larger of the
\* target and the latest event end.
C20_WavLayoutOfExactSampleCount ==
    (fn = "synthesizePlanToWavBase64" /\ result # <<>>) =>
        WavLayout(result[1], Max(1, CeilDiv(WavEndMs * 44100, 1000)))

\* the part of C20 that holds for every input: the layout with N the sample
\* count the code computes, which is the exact count or one more
C20_WavLayoutOfComputedSampleCount ==
    (fn = "synthesizePlanToWavBase64" /\ result # <<>>) =>
        /\ WavLayout(result[1], result[1].totalSamples)
        /\ result[1].totalSamples - Max(1, CeilDiv(WavEndMs * 44100, 1000)) \in {0, 1}

\* an input whose end is 70 ms has been synthesized: 3088 samples, not 3087
C20_ExtraSample ==
    /\ fn = "synthesizePlanToWavBase64"
    /\ result # <<>>
    /\ WavEndMs = 70
    /\ result[1].totalSamples = 3088

----------------------------------------------------------------------------
(* SpecMidi: the track createMidiFile hands to MidiWriter (route.ts 162-190) *)

\* Math.round of a double y, 0 <= y < 2^31
DoubleRound(y) ==
    IF y.e >= 0 THEN FromBits([i \in 1..y.e |-> 0] \o y.m)
    ELSE LET f == 0 - y.e
         IN  FromBits(SubSeq(y.m, f + 1, Len(y.m)))
                 + (IF f <= Len(y.m) THEN y.m[f] ELSE 0)

\* Line 166
msPerBeat == 500

\* Lines 178, 185: Math.round((evt.time / msPerBeat) * 128), the ticks of
\* the `wait` field (0 and 'T0' are the same rest)
WaitTicks(evt) == DoubleRound(DoubleMul(DoubleDiv(evt.time, msPerBeat), 128))

\* Lines 180, 186: Math.round(Math.max(0.125, evt.duration / msPerBeat) * 128),
\* the ticks of the `duration` field; 0.125 beats are 62.5 ms and 16 ticks
DurationTicks(evt) ==
    IF 2 * evt.duration <= 125 THEN 16
    ELSE DoubleRound(DoubleMul(DoubleDiv(evt.duration, msPerBeat), 128))

\* Lines 181-187: track.addEvent(new MidiWriter.NoteEvent({wait, duration})).
\* A NoteEvent is written at the cursor of the track: its note-on `wait`
\* ticks after the cursor, its note-off `duration` ticks after the note-on,
\* and the cursor moves to the note-off.
AddNoteEvent(track, evt) ==
    LET At(cursor) ==
            Append(track, [evt |-> evt,
                           on |-> cursor + WaitTicks(evt),
                           off |-> cursor + WaitTicks(evt) + DurationTicks(evt)])
    IN  At(IF track = <<>> THEN 0 ELSE track[Len(track)].off)

\* Lines 162-190: the notes of the track in track order, each with the
\* absolute ticks of its note-on and note-off
createMidiFile(evs) ==
    LET Sorted(s) == Loop(LAMBDA track, i : AddNoteEvent(track, s[i]), <<>>, 1, Len(s))
    IN  Sorted(SortByTime(evs))

\* plans of at most MaxMidiEvents events
MaxMidiEvents == 3

\* the internal events the plans are made of
MidiEventChoices ==
    { [note |-> 60, time |-> 0, duration |-> 500, velocity |-> 80],
      [note |-> 64, time |-> 500, duration |-> 500, velocity |-> 70],
      [note |-> 67, time |-> 750, duration |-> 40, velocity |-> 90],
      [note |-> 72, time |-> 1333, duration |-> 250, velocity |-> 100],
      [note |-> 55, time |-> 2000, duration |-> 2000, velocity |-> 64] }

MidiInit ==
    /\ fn = "createMidiFile"
    /\ arg \in SeqsUpTo(MidiEventChoices, MaxMidiEvents)
    /\ result = <<>>
    /\ PlanIdle
    /\ RouteIdle
    /\ CodecIdle

EncodeOnly ==
    /\ fn = "createMidiFile"
    /\ result = <<>>
    /\ result' = <<createMidiFile(arg)>>
    /\ UNCHANGED <<fn, arg, planVars, routeVars, codecVars>>

SpecMidi == MidiInit /\ [][EncodeOnly]_vars

\* round(ms / 500 * 128) and round(max(0.125, ms / 500) * 128), exactly
StartTick(ms) == RoundDiv(ms * 32, 125)
LengthTicks(ms) == IF 2 * ms <= 125 THEN 16 ELSE RoundDiv(ms * 32, 125)

\* C21: in the encoded track each event's note-on is at the absolute tick
\* round(startMs / 500 * 128) and its note-off
\* round(max(0.125, durationMs / 500) * 128) ticks later, whatever events
\* precede it.
C21_NoteOnAtOwnStartTick ==
    (fn = "createMidiFile" /\ result # <<>>) =>
        \A k \in 1..Len(result[1]) :
            /\ result[1][k].on = StartTick(result[1][k].evt.time)
            /\ result[1][k].off - result[1][k].on
                   = LengthTicks(result[1][k].evt.duration)

\* the parts of C21 that hold for every plan: the first note of the track
\* starts at its own tick and every note-off comes its length after its
\* note-on
C21_FirstNoteAndLengths ==
    (fn = "createMidiFile" /\ result # <<>>) =>
        /\ Len(result[1]) = Len(arg)
        /\ Len(result[1]) >= 1 => result[1][1].on = StartTick(result[1][1].evt.time)
        /\ \A k \in 1..Len(result[1]) :
               result[1][k].off - result[1][k].on
                   = LengthTicks(result[1][k].evt.duration)

\* a note at 0 ms and a note at 500 ms, each 500 ms long, were encoded: the
\* second note-on is at tick 256, not 128
C21_SecondNoteLate ==
    /\ fn = "createMidiFile"
    /\ result # <<>>
    /\ Len(arg) = 2
    /\ arg[1].time = 0 /\ arg[2].time = 500
    /\ result[1][2].on = 256

----------------------------------------------------------------------------
(* SpecBreak: the pattern breaker on enriched plans (part_001 694-709)       *)

\* the pitches the plans are made of: both ends of the working range, which
\* the octave shifts of the variation layer clamp to, and pitches inside it
BreakPitches == {36, 38, 60, 96}

\* an enriched plan of eight events a quarter second apart with the pitches ps
BreakPlan(ps) ==
    [k \in 1..Len(ps) |->
        [noteName |-> midiToNoteName(ps[k]), time |-> (k - 1) * 250,
         duration |-> 250, velocity |-> Num(80)]]

\* the plans: any first cycle, followed by itself or by its reverse
BreakPlans ==
    { BreakPlan(c \o c) : c \in [1..cycleLen -> BreakPitches] }
        \cup { BreakPlan(c \o [k \in 1..cycleLen |-> c[cycleLen + 1 - k]]) :
                   c \in [1..cycleLen -> BreakPitches] }

BreakInit ==
    /\ stage = "enriched"
    /\ events \in BreakPlans
    /\ rawEvents = <<>>
    /\ targetDurationMs = 2000
    /\ segments = <<>>
    /\ RouteIdle
    /\ CodecIdle
    /\ ApplyIdle

SpecBreak == BreakInit /\ [][PatternBreaker]_vars

\* the pitches of events lo..hi (1-based)
PitchRun(evs, lo, hi) == [k \in 1..(hi - lo + 1) |-> Midi(evs[lo + k - 1])]

\* C22: whenever the plan has at least 8 events, after the pattern breaker
\* the pitches of events 0..3 are not the pitches of events 4..7, also for
\* pitches at the two ends of the working range 36..96.
C22_SecondCycleDiffers ==
    (stage = "broken" /\ Len(events) >= 2 * cycleLen) =>
        PitchRun(events, 1, cycleLen) # PitchRun(events, cycleLen + 1, 2 * cycleLen)

\* what holds of every plan: the two cycles differ after the pass unless the
\* cycle is 96, 36, 96, 36, which the clamp leaves as it is
C22_DiffersUnlessClamped ==
    (stage = "broken" /\ Len(events) >= 2 * cycleLen) =>
        \/ PitchRun(events, 1, cycleLen) # PitchRun(events, cycleLen + 1, 2 * cycleLen)
        \/ PitchRun(events, 1, cycleLen) = <<96, 36, 96, 36>>

\* the pass has run on the cycle 96, 36, 96, 36 played twice
C22_ClampedCycle ==
    /\ stage = "broken"
    /\ PitchRun(events, 1, 2 * cycleLen) = <<96, 36, 96, 36, 96, 36, 96, 36>>

----------------------------------------------------------------------------
(* SpecRegen: the deterministic rhythmic regeneration (part_001 829-907)     *)

\* plans of MinRegenEvents..MaxRegenEvents events: 20 rebuilt events are
\* exactly 80 % of 25
MinRegenEvents == 16
MaxRegenEvents == 27

RegenNames == << <<"C", "4">>, <<"E", "4">>, <<"G", "4">>, <<"B", "4">>, <<"D", "5">>, <<"F", "5">> >>

\* a plan of n events a quarter second apart on the first u names, all of
\* one duration
RegenPlan(n, u) ==
    [k \in 1..n |->
        [noteName |-> RegenNames[((k - 1) % u) + 1], time |-> (k - 1) * 250,
         duration |-> 250, velocity |-> Num(80)]]

RegenTarget == 4000

RegenInit ==
    /\ fn = "regeneration"
    /\ arg \in [events : { RegenPlan(n, u) : n \in MinRegenEvents..MaxRegenEvents,
                                             u \in {1, 4, 6} },
                segments : { AnalysedSegments(RegenTarget),
                             AnalysisFallbackSegments(RegenTarget), <<>> },
                target : {RegenTarget},
                tape : 1..NumTapes]
    /\ result = <<>>
    /\ PlanIdle
    /\ RouteIdle
    /\ CodecIdle

RegenerateOnly ==
    /\ fn = "regeneration"
    /\ result = <<>>
    /\ result' = <<Regeneration(arg.events, arg.segments, arg.target, arg.tape)>>
    /\ UNCHANGED <<fn, arg, planVars, routeVars, codecVars>>

SpecRegen == RegenInit /\ [][RegenerateOnly]_vars

\* the regeneration is triggered for the plan evs: it is monotone and there
\* are analysed segments
RegenTriggered(evs, segs) ==
    /\ UniqueNames(evs) <= 4
    /\ (UniqueDurations(evs) <= 2 \/ SumDurations(evs) > 800 * Len(evs))
    /\ Len(segs) > 0

\* the plan after a triggered regeneration that accepts the rebuilt plan when
\* Enough(rebuilt length, current length) and it has more unique pitches
RegenOutcome(Enough(_, _)) ==
    LET Decide(rebuilt) ==
            IF UniqueNames(rebuilt) > UniqueNames(arg.events)
               /\ Enough(Len(rebuilt), Len(arg.events))
            THEN SortByTime(rebuilt) ELSE arg.events
    IN  Decide(Rebuild(arg.segments, arg.target, arg.tape))

\* C23: when the regeneration is triggered the rebuilt plan replaces the
\* current plan if and only if it has strictly more unique pitches and at
\* least 80 % as many events, exactly 80 % included; otherwise the current
\* plan is kept unchanged.
C23_ReplaceAtEightyPercentOrMore ==
    (fn = "regeneration" /\ result # <<>> /\ RegenTriggered(arg.events, arg.segments)) =>
        result[1] = RegenOutcome(LAMBDA r, n : 10 * r >= 8 * n)

\* what the code does: the rebuilt plan needs more than 80 % of the events,
\* and a plan for which the regeneration is not triggered is kept
C23_ReplaceAboveEightyPercent ==
    (fn = "regeneration" /\ result # <<>>) =>
        IF RegenTriggered(arg.events, arg.segments)
        THEN result[1] = RegenOutcome(LAMBDA r, n : 10 * r > 8 * n)
        ELSE result[1] = arg.events

\* a triggered regeneration rebuilt 20 events with more unique pitches for a
\* plan of 25 and the plan was kept
C23_ExactlyEightyPercentKept ==
    /\ fn = "regeneration"
    /\ result # <<>>
    /\ RegenTriggered(arg.events, arg.segments)
    /\ Len(arg.events) = 25
    /\ Len(Rebuild(arg.segments, arg.target, arg.tape)) = 20
    /\ UniqueNames(Rebuild(arg.segments, arg.target, arg.tape)) > UniqueNames(arg.events)
    /\ result[1] = arg.events

\* a triggered regeneration replaced the plan
C23_Replaced ==
    /\ fn = "regeneration"
    /\ result # <<>>
    /\ RegenTriggered(arg.events, arg.segments)
    /\ result[1] # arg.events

----------------------------------------------------------------------------
(* SpecBalance: the pitch histogram balancing (part_001 782-808)             *)

\* plans of MinBalanceEvents..MaxBalanceEvents events
MinBalanceEvents == 12
MaxBalanceEvents == 20

\* the pitches the plans carry: both ends of the working range, a low pitch
\* with a single candidate in 48..84, and two pitches of the middle octave
BalancePitches == {36, 39, 60, 62, 96}

\* a plan of n events a quarter second apart: the first half on the pitch p,
\* the rest on the pitch q
BalancePlan(n, p, q) ==
    [k \in 1..n |->
        [noteName |-> midiToNoteName(IF 2 * k <= n THEN p ELSE q),
         time |-> (k - 1) * 250, duration |-> 250, velocity |-> Num(80)]]

BalanceInit ==
    /\ fn = "balanceHistogram"
    /\ arg \in { BalancePlan(n, p, q) : n \in MinBalanceEvents..MaxBalanceEvents,
                                        p \in BalancePitches, q \in BalancePitches }
    /\ result = <<>>
    /\ PlanIdle
    /\ RouteIdle
    /\ CodecIdle

BalanceOnly ==
    /\ fn = "balanceHistogram"
    /\ result = <<>>
    /\ result' = <<BalanceHistogram(arg)>>
    /\ UNCHANGED <<fn, arg, planVars, routeVars, codecVars>>

SpecBalance == BalanceInit /\ [][BalanceOnly]_vars

\* C24: after the pitch histogram balancing of a plan of N events with
\* pitches in 36..96 no pitch name is carried by more than ceil(0.18 * N)
\* events, the substituted pitches counted.
C24_NoNameAboveEighteenPercent ==
    (fn = "balanceHistogram" /\ result # <<>>) =>
        \A k \in 1..Len(result[1]) :
            NameCount(result[1], result[1][k].noteName) <= CeilDiv(18 * Len(arg), 100)

\* the balancing of ten C4 followed by ten D4 has left five C4 where four
\* are allowed: the D4 are replaced by a C4 after the C4 have been visited
C24_SubstitutePilesUp ==
    /\ fn = "balanceHistogram"
    /\ arg = BalancePlan(20, 60, 62)
    /\ result # <<>>
    /\ NameCount(result[1], midiToNoteName(60)) = 5

\* the balancing of twenty C2 has no candidate in 48..84 and left the plan
\* as it was
C24_NoCandidate ==
    /\ fn = "balanceHistogram"
    /\ arg = BalancePlan(20, 36, 36)
    /\ result = <<arg>>

----------------------------------------------------------------------------
(* SpecFill: fillGapsWithMedian on short event lists (route.ts 115-150)      *)

\* lists of at most MaxFillEvents events
MaxFillEvents == 3

FillEvent(name, time, duration) ==
    [noteName |-> name, time |-> time, duration |-> duration,
     noteType |-> inferNoteType(duration), velocity |-> Num(80)]

\* the events the lists are made of: gaps of 100, 150, 200, 201 and 500 ms,
\* an event inside another one, and a name that does not parse
FillEventChoices ==
    { FillEvent(<<"C", "4">>, 0, 500), FillEvent(<<"A", "4">>, 100, 100),
      FillEvent(<<"E", "4">>, 600, 250), FillEvent(<<"D", "4">>, 700, 125),
      FillEvent(<<"G", "4">>, 1000, 500), FillEvent(<<"B", "4">>, 1701, 2000),
      FillEvent(<<"H", "4">>, 2500, 250) }

\* the call of POST: the scale is the one detected on the events, or none
FillInit ==
    /\ fn = "fillGapsWithMedian"
    /\ \E evs \in SeqsUpTo(FillEventChoices, MaxFillEvents) :
          arg \in [events : {evs}, scale : { <<>>, detectScale(evs, <<>>) }]
    /\ result = <<>>
    /\ PlanIdle
    /\ RouteIdle
    /\ CodecIdle

FillOnly ==
    /\ fn = "fillGapsWithMedian"
    /\ result = <<>>
    /\ result' = <<fillGapsWithMedian(arg.events, arg.scale)>>
    /\ UNCHANGED <<fn, arg, planVars, routeVars, codecVars>>

SpecFill == FillInit /\ [][FillOnly]_vars

\* the silence between the end of s[i] and the start of s[i + 1]
SilenceAfter(s, i) == s[i + 1].time - (s[i].time + s[i].duration)

\* the events of s at the positions in I, in order
EventsAt(s, I) ==
    Loop(LAMBDA acc, k : IF k \in I THEN Append(acc, s[k]) ELSE acc, <<>>, 1, Len(s))

\* start and length of the fillers the claim asks for: one for every pair of
\* start-ordered neighbours more than 200 ms apart
ExpectedFillers(sorted) ==
    Loop(LAMBDA acc, i :
            IF SilenceAfter(sorted, i) > 200
            THEN Append(acc, <<sorted[i].time + sorted[i].duration, SilenceAfter(sorted, i)>>)
            ELSE acc,
         <<>>, 1, Len(sorted) - 1)

\* out is the start-ordered input with exactly the expected fillers added
FilledAsExpected(sorted, out) ==
    \E I \in SUBSET (1..Len(out)) :
        /\ EventsAt(out, (1..Len(out)) \ I) = sorted
        /\ LET fillers == EventsAt(out, I)
           IN  [k \in 1..Len(fillers) |-> <<fillers[k].time, fillers[k].duration>>]
                   = ExpectedFillers(sorted)

AllNamesParse(evs) == \A i \in 1..Len(evs) : noteNameToMidiLoose(evs[i].noteName) # <<>>

\* C25: for a list of two or more events whose names all parse, no two
\* start-ordered neighbours of the result of fillGapsWithMedian are more than
\* 200 ms of silence apart; every pair of input neighbours with a gap above
\* 200 ms gets exactly one filler that starts at the first event's end and
\* lasts the gap, and smaller gaps and the input events are left as they were.
C25_GapsAboveTwoHundredFilled ==
    (fn = "fillGapsWithMedian" /\ result # <<>>
        /\ Len(arg.events) >= 2 /\ AllNamesParse(arg.events)) =>
        /\ \A i \in 1..(Len(result[1]) - 1) : SilenceAfter(result[1], i) <= 200
        /\ FilledAsExpected(SortByTime(arg.events), result[1])

\* a list with a gap of 201 ms and a gap of exactly 200 ms has been filled:
\* one event was added
C25_Filled ==
    /\ fn = "fillGapsWithMedian"
    /\ arg.events = << FillEvent(<<"B", "4">>, 1701, 2000), FillEvent(<<"D", "4">>, 700, 125),
                       FillEvent(<<"C", "4">>, 0, 500) >>
    /\ arg.scale # <<>>
    /\ result # <<>>
    /\ Len(result[1]) = 4

----------------------------------------------------------------------------
(* SpecParse: the two parsers on note names with and without an accidental   *)

ParseLetters == {"A", "B", "C", "D", "E", "F", "G"}

\* the octaves of the names parsed: -1..MaxParseOctave
MaxParseOctave == 9

\* the name of a letter, an accidental ("" for none) and an octave
NoteName(letter, accidental, octave) ==
    <<letter>> \o (IF accidental = "" THEN <<>> ELSE <<accidental>>) \o IntToStr(octave)

ParseInit ==
    /\ fn \in {"noteNameToMidi", "noteNameToMidiLoose"}
    /\ arg \in [letter : ParseLetters, accidental : {"", "#", "b"},
                octave : -1..MaxParseOctave]
    /\ result = <<>>
    /\ PlanIdle
    /\ RouteIdle
    /\ CodecIdle

\* the parser named fn
Parser(name) ==
    IF fn = "noteNameToMidi" THEN noteNameToMidi(name) ELSE noteNameToMidiLoose(name)

ParseOnly ==
    /\ fn \in {"noteNameToMidi", "noteNameToMidiLoose"}
    /\ result = <<>>
    /\ result' = <<Parser(NoteName(arg.letter, arg.accidental, arg.octave))>>
    /\ UNCHANGED <<fn, arg, planVars, routeVars, codecVars>>

SpecParse == ParseInit /\ [][ParseOnly]_vars

\* a name with an accidental has been parsed, and it and the natural name of
\* the same letter and octave are valid
AccidentalParsed ==
    /\ fn \in {"noteNameToMidi", "noteNameToMidiLoose"}
    /\ result # <<>>
    /\ arg.accidental # ""
    /\ result[1] # <<>>
    /\ Parser(NoteName(arg.letter, "", arg.octave)) # <<>>

\* the pitch of the natural name of the same letter and octave
NaturalPitch == Parser(NoteName(arg.letter, "", arg.octave))[1]

\* C26: an accidental moves the parsed pitch by exactly one semitone from the
\* natural note of the same letter and octave, for both parsers: a sharp by
\* +1 and a flat by -1, B# and Cb included.
C26_AccidentalIsOneSemitone ==
    AccidentalParsed =>
        result[1][1] = NaturalPitch + (IF arg.accidental = "#" THEN 1 ELSE -1)

\* what the parsers do: one semitone except for B# and Cb, which stay in the
\* octave of the name, eleven semitones on the other side of the natural
C26_AccidentalWrapsInOctave ==
    AccidentalParsed =>
        result[1][1] = NaturalPitch
            + (IF arg.letter = "B" /\ arg.accidental = "#" THEN -11
               ELSE IF arg.letter = "C" /\ arg.accidental = "b" THEN 11
               ELSE IF arg.accidental = "#" THEN 1 ELSE -1)

\* B#4 has been parsed as 60, the pitch of C4, by noteNameToMidi
C26_BSharpFourIsSixty ==
    /\ fn = "noteNameToMidi"
    /\ arg = [letter |-> "B", accidental |-> "#", octave |-> 4]
    /\ result = << <<60>> >>

\* Cb4 has been parsed as 71, the pitch of B4, by noteNameToMidiLoose
C26_CFlatFourIsSeventyOne ==
    /\ fn = "noteNameToMidiLoose"
    /\ arg = [letter |-> "C", accidental |-> "b", octave |-> 4]
    /\ result = << <<71>> >>

----------------------------------------------------------------------------
(* C27: the start times of the plan of the response                          *)

StartTimesNonNegative == \A k \in 1..Len(events) : events[k].time \in Nat

\* C27: every event of the plan returned in the response has a non-negative
\* integer start time, on the normal path, on the retry path and on the path
\* of the external failure with the jittered scaffold.
C27_StartTimesNonNegative ==
    stage = "responded" => StartTimesNonNegative

\* the part that holds: the plans of requestMusicalPlan, first attempt or
\* retry, are answered with start times that are naturals
C27_PlanStartTimesNonNegative ==
    (stage = "responded" /\ ~fallbackUsed) => StartTimesNonNegative

\* a response built from the scaffold starts before 0
C27_ScaffoldStartsBeforeZero ==
    /\ stage = "responded"
    /\ fallbackUsed
    /\ \E k \in 1..Len(events) : events[k].time < 0

----------------------------------------------------------------------------
(* C28: durations and note types of the plan of the response                 *)

DurationsCanonical ==
    \A k \in 1..Len(events) : events[k].duration = NoteTypeMs(events[k].noteType)

\* C28: in the plan returned in the response every event's duration is the
\* canonical value of its noteType (125, 250, 500, 1000, 2000 ms), for the
\* events mapped by requestMusicalPlan and for the fillers that
\* fillGapsWithMedian adds afterwards.
C28_ResponseDurationsCanonical ==
    stage = "responded" => DurationsCanonical

\* the part that holds: the plan requestMusicalPlan returns, before the
\* route fills its gaps
C28_ReturnedDurationsCanonical ==
    stage = "returned" => DurationsCanonical

\* a response carries an event whose duration is not one of the five
\* canonical values
C28_FillerOfGapLength ==
    /\ stage = "responded"
    /\ \E k \in 1..Len(events) : events[k].duration \notin {125, 250, 500, 1000, 2000}

----------------------------------------------------------------------------
(* C29: what the coverage pass changes                                       *)

\* the start of the event that closes the gap a filler starting at t is in:
\* the first start after t, or the target for the tail gap
ClosingStart(evs, t, target) ==
    LET later == { evs[i].time : i \in { j \in 1..Len(evs) : evs[j].time > t } }
    IN  IF later = {} THEN target ELSE SetMin(later)

\* C29: while Coverage Enforcement fills one gap it changes nothing outside
\* that gap: the original events are kept as they were, and every filler ends
\* no later than the start of the event that closes its own gap (the target
\* for the tail gap), also when a later gap is shorter than 125 ms.
C29_FillersStayInTheirGap ==
    [][(stage = "dense" /\ stage' = "covered") =>
          /\ SeqRange(events) \subseteq SeqRange(events')
          /\ \A f \in SeqRange(events') \ SeqRange(events) :
                f.time + f.duration <= ClosingStart(events, f.time, targetDurationMs)]_vars

\* the part that holds: the original events are kept and every filler starts
\* in a gap, at or after the end of the event before it
C29_OriginalsKept ==
    [][(stage = "dense" /\ stage' = "covered") =>
          /\ SeqRange(events) \subseteq SeqRange(events')
          /\ Len(events') = Len(events)
                + Cardinality({ k \in 1..Len(events') : events'[k] \notin SeqRange(events) })
          /\ \A f \in SeqRange(events') \ SeqRange(events) :
                f.time < ClosingStart(events, f.time, targetDurationMs)]_vars

----------------------------------------------------------------------------
(* C30: the onsets of the whole seconds after the density enforcement        *)

\* every whole second before the target holds an onset of evs
WholeSecondsHaveOnsets(evs, target) ==
    \A s \in 0..(FloorDiv(target, 1000) - 1) : HasOnsetIn(evs, 1000 * s, 1000 * s + 1000)

OnsetTimes(evs) == { evs[i].time : i \in 1..Len(evs) }

\* C30: for a target of at least one second every whole second of the plan
\* requestMusicalPlan returns has an onset, and no step after the density
\* enforcement (register expansion, coverage fillers, canonical snapping,
\* register-breadth injection) removes or moves an onset: the plan has the
\* property from the density enforcement on, and each later step keeps every
\* start time.
C30_OnsetsKeptAfterDensity ==
    [][(targetDurationMs >= 1000 /\ stage \in {"dense", "covered"}) =>
          /\ WholeSecondsHaveOnsets(events, targetDurationMs)
          /\ OnsetTimes(events) \subseteq OnsetTimes(events')
          /\ WholeSecondsHaveOnsets(events', targetDurationMs)]_vars

\* a plan was returned in which some whole second has one start time only
C30_Witness ==
    /\ stage = "returned"
    /\ targetDurationMs >= 1000
    /\ \E s \in 0..(FloorDiv(targetDurationMs, 1000) - 1) :
          Cardinality({ t \in OnsetTimes(events) : FloorDiv(t, 1000) = s }) = 1

====
